---------------------------- MODULE Spec2Model ----------------------------
(***************************************************************************)
(* The dynamic workflow execution engine of AskYia's backend:              *)
(*   - WorkflowExecutor._parse_workflow / _topological_sort / execute      *)
(*     (app/services/workflow_executor.py),                                *)
(*   - the node components (app/services/components/*.py),                 *)
(*   - LLMService.generate and its provider fallback                       *)
(*     (app/services/llm_service.py),                                      *)
(*   - ExecutionLogService and its subscriber fan-out                      *)
(*     (app/services/log_service.py).                                      *)
(*                                                                         *)
(* Texts are sequences of tokens: "" is << >>, string concatenation is \o, *)
(* so that formatting (f-strings) keeps its parts visible.                 *)
(***************************************************************************)
EXTENDS Integers, Sequences, FiniteSets, TLC

VARIABLES
    definition,     \* the workflow definition handed to the scheduler: [nodes, edges]
    kahn,           \* _topological_sort's locals: [in_degree, adjacency, queue, result]
    sortPc,         \* position inside _topological_sort: "idle" | "build" | "loop" | "done"
    llm,            \* LLMService's configuration: [openai_client, gemini_configured]
    gen,            \* one LLMService.generate call: [pc, args, resolved, calls, result]
    svc,            \* ExecutionLogService: [executions, subscribers, queues, clock]
    subs,           \* the subscribe generators: queue -> [pc, execution_id, received, ...]
    svcRaised,      \* the exception the last service call raised (<< >>: none)
    exec            \* the WorkflowExecutor.execute calls: call -> [pc, definition, ...]

sortVars == <<definition, kahn, sortPc>>

genVars == <<llm, gen>>

svcVars == <<svc, subs, svcRaised>>

execVars == <<exec>>

vars == <<definition, kahn, sortPc, llm, gen, svc, subs, svcRaised, exec>>

(***************************************************************************)
(* Bounds of the model.                                                    *)
(***************************************************************************)
MaxNodes == 3       \* nodes of a definition handed to the scheduler
MaxEdges == 3       \* edges of a definition handed to the scheduler
MaxExecutions == 1  \* executions started on the log service
MaxLogEntries == 3  \* entries logged per execution by direct service calls
NumSubscribers == 2 \* subscribe calls
MaxHeartbeats == 1  \* heartbeats a subscriber is followed through
ExecMaxNodes == 2   \* nodes of a definition handed to execute
ExecMaxEdges == 1   \* edges of a definition handed to execute
MaxDocuments == 1   \* documents held by the vector store
NumCalls == 2       \* execute calls running concurrently

(***************************************************************************)
(* Generic helpers.                                                        *)
(***************************************************************************)
SeqsUpTo(S, n) == UNION {[1..k -> S] : k \in 0..n}

Perms(S) == {p \in [1..Cardinality(S) -> S] : \A i, j \in DOMAIN p : p[i] = p[j] => i = j}

Range(s) == {s[i] : i \in DOMAIN s}

IndexOf(s, x) == CHOOSE i \in DOMAIN s : s[i] = x

\* the text `sub` occurs in `text`
Contains(text, sub) ==
    \E i \in 1..(Len(text) - Len(sub) + 1) : SubSeq(text, i, i + Len(sub) - 1) = sub

\* `text` starts with `prefix`
StartsWith(text, prefix) ==
    Len(prefix) <= Len(text) /\ SubSeq(text, 1, Len(prefix)) = prefix

IsPrefix(s, t) == Len(s) <= Len(t) /\ SubSeq(t, 1, Len(s)) = s

Last(s) == s[Len(s)]

RECURSIVE FilterSeq(_, _)
\* [x for x in s if x \in S]
FilterSeq(s, S) ==
    IF s = << >> THEN << >>
    ELSE IF Head(s) \in S THEN <<Head(s)>> \o FilterSeq(Tail(s), S)
    ELSE FilterSeq(Tail(s), S)

(***************************************************************************)
(* The values of the parts of the state a specification does not exercise. *)
(***************************************************************************)
\* _topological_sort's locals before line 151
NoKahn == [in_degree |-> << >>, adjacency |-> << >>, queue |-> << >>, result |-> << >>]

\* LLMService.__init__ with neither API key set
NoLLM == [openai_client |-> FALSE, gemini_configured |-> FALSE]

\* no generate call in progress
NoGen == [pc |-> "idle"]

\* a definition without nodes or edges
EmptyDefinition == [nodes |-> << >>, edges |-> << >>]

ExecutionIds == 1..MaxExecutions

Queues == 1..NumSubscribers

\* ExecutionLogService.__init__; no subscribe call made yet
NoSvc ==
    [executions |-> << >>,
     subscribers |-> [e \in ExecutionIds \cup {0} |-> << >>],
     queues |-> [q \in Queues |-> << >>],
     clock |-> 0]

NoSubs ==
    [q \in Queues |-> [pc |-> "new", execution_id |-> 0, received |-> << >>,
                       heartbeats |-> 0, backlog |-> 0, late |-> FALSE]]

\* _parse_workflow's result for a definition without nodes
NoInfo ==
    [present_components |-> {}, node_map |-> << >>, node_types |-> << >>,
     execution_order |-> << >>, has_kb |-> FALSE, has_llm |-> FALSE]

\* An execute call that has not been made: the locals of execute, all unset.
\*   i           the position in execution_order of the node dispatched next
\*   dispatched  the component types of the nodes dispatched so far
\*   generated   what LLMService.generate did, once per call made of it
\*   searched    how many times the Retrieval component (embedding and
\*               similarity search) was run
\*   raised      the message of the exception that left the node loop, or execute
IdleCall ==
    [pc |-> "idle", definition |-> EmptyDefinition, payload |-> << >>,
     info |-> NoInfo, execution_id |-> 0, query |-> << >>, context |-> << >>,
     i |-> 0, dispatched |-> << >>, generated |-> << >>, searched |-> 0,
     raised |-> << >>, result |-> << >>]

NoExec == [c \in ExecutionIds |-> IdleCall]

(***************************************************************************)
(* Graph parser.                                                           *)
(***************************************************************************)
\* WorkflowExecutor.NODE_TYPE_MAP: raw type string -> component type.
NODE_TYPE_MAP ==
    [t \in {"input", "userQuery", "user_query", "UserQuery",
            "knowledgeBase", "knowledge_base", "KnowledgeBase",
            "llm", "llmEngine", "llm_engine", "LLM",
            "output", "Output"} |->
        CASE t \in {"input", "userQuery", "user_query", "UserQuery"} -> "user_query"
          [] t \in {"knowledgeBase", "knowledge_base", "KnowledgeBase"} -> "knowledge_base"
          [] t \in {"llm", "llmEngine", "llm_engine", "LLM"} -> "llm_engine"
          [] OTHER -> "output"]

\* NODE_TYPE_MAP.get(node_type) is truthy
Recognized(node) == node.type \in DOMAIN NODE_TYPE_MAP

\* The last index of a recognized node carrying this id: later assignments to
\* node_map[node_id] / node_types[node_id] overwrite earlier ones.
LastRecognized(nodes, id) ==
    CHOOSE i \in DOMAIN nodes :
        /\ nodes[i].id = id /\ Recognized(nodes[i])
        /\ \A j \in DOMAIN nodes : (nodes[j].id = id /\ Recognized(nodes[j])) => j <= i

\* _parse_workflow's node_types: node_id -> component type, unknown types skipped.
ParseNodeTypes(nodes) ==
    [id \in {nodes[i].id : i \in {j \in DOMAIN nodes : Recognized(nodes[j])}} |->
        NODE_TYPE_MAP[nodes[LastRecognized(nodes, id)].type]]

\* _parse_workflow's node_map: node_id -> node.
ParseNodeMap(nodes) ==
    [id \in DOMAIN ParseNodeTypes(nodes) |-> nodes[LastRecognized(nodes, id)]]

(***************************************************************************)
(* Scheduler: _topological_sort (Kahn's algorithm).                        *)
(***************************************************************************)
\* A faulty filter: an edge is kept when its target is valid, whatever its source.
RetainedEdgesByTarget(edges, valid_node_ids) ==
    FilterSeq(edges, {e \in Range(edges) : e.target \in valid_node_ids})

\* Edges kept by the scheduler: both endpoints in valid_node_ids.
RetainedEdges(edges, valid_node_ids) ==
    FilterSeq(edges, {e \in Range(edges) :
                        e.source \in valid_node_ids /\ e.target \in valid_node_ids})

RECURSIVE CountTargets(_, _)
\* the number of retained edges whose target is id
CountTargets(edges, id) ==
    IF edges = << >> THEN 0
    ELSE (IF Head(edges).target = id THEN 1 ELSE 0) + CountTargets(Tail(edges), id)

RECURSIVE TargetsOfDistinct(_, _)
\* A faulty adjacency: a target reached by duplicate edges is listed once, while
\* in_degree still counts every edge.
TargetsOfDistinct(edges, id) ==
    IF edges = << >> THEN << >>
    ELSE LET rest == TargetsOfDistinct(Tail(edges), id)
         IN  IF Head(edges).source = id /\ Head(edges).target \notin Range(rest)
             THEN <<Head(edges).target>> \o rest
             ELSE rest

RECURSIVE TargetsOf(_, _)
\* adjacency[id]: the targets of id's retained edges, in edge order
TargetsOf(edges, id) ==
    IF edges = << >> THEN << >>
    ELSE (IF Head(edges).source = id THEN <<Head(edges).target>> ELSE << >>)
         \o TargetsOf(Tail(edges), id)

\* Lines 151-170: in_degree and adjacency over valid_node_ids, and the queue of
\* zero-in-degree nodes.  key_order is the order in which `for node_id in
\* valid_node_ids` walks the set: it is the insertion order of the in_degree
\* dict and so the order of the seeds.
KahnBuild(edges, node_types, key_order) ==
    LET valid_node_ids == DOMAIN node_types
        kept == RetainedEdges(edges, valid_node_ids)
        in_degree == [id \in valid_node_ids |-> CountTargets(kept, id)]
    IN  [in_degree |-> in_degree,
         adjacency |-> [id \in valid_node_ids |-> TargetsOf(kept, id)],
         queue     |-> FilterSeq(key_order, {id \in valid_node_ids : in_degree[id] = 0}),
         result    |-> << >>]

RECURSIVE Relax(_, _, _)
\* Lines 176-179: decrement every neighbour in turn, enqueueing those that hit 0.
\* Returns [in_degree, queue].
Relax(neighbors, in_degree, queue) ==
    IF neighbors = << >> THEN [in_degree |-> in_degree, queue |-> queue]
    ELSE LET n == Head(neighbors)
             d == in_degree[n] - 1
         IN  Relax(Tail(neighbors),
                   [in_degree EXCEPT ![n] = d],
                   IF d = 0 THEN Append(queue, n) ELSE queue)

RECURSIVE RelaxEager(_, _, _)
\* A faulty relaxation: a neighbour is enqueued as soon as one predecessor is done.
RelaxEager(neighbors, in_degree, queue) ==
    IF neighbors = << >> THEN [in_degree |-> in_degree, queue |-> queue]
    ELSE LET n == Head(neighbors)
             d == in_degree[n] - 1
         IN  RelaxEager(Tail(neighbors),
                        [in_degree EXCEPT ![n] = d],
                        IF n \notin Range(queue) THEN Append(queue, n) ELSE queue)

\* The relaxation used by one iteration of the while loop.
RelaxNeighbors(neighbors, in_degree, queue) == Relax(neighbors, in_degree, queue)

\* Lines 172-179: one iteration of `while queue`.
KahnStep(k) ==
    LET node_id == Head(k.queue)
        r == RelaxNeighbors(k.adjacency[node_id], k.in_degree, Tail(k.queue))
    IN  [in_degree |-> r.in_degree,
         adjacency |-> k.adjacency,
         queue     |-> r.queue,
         result    |-> Append(k.result, node_id)]

RECURSIVE KahnRun(_)
KahnRun(k) == IF k.queue = << >> THEN k.result ELSE KahnRun(KahnStep(k))

\* _topological_sort(nodes, edges, node_types) under a given set iteration order.
TopologicalSort(edges, node_types, key_order) ==
    KahnRun(KahnBuild(edges, node_types, key_order))

(***************************************************************************)
(* Generation capability: LLMService.generate with provider fallback.      *)
(* A provider or model that is None or "" is written "".                   *)
(***************************************************************************)
\* LLMProvider
OPENAI == "openai"
GEMINI == "gemini"

\* The provider and model strings a caller is modelled to pass.
ProviderArgs == {"", "openai", "gemini", "Gemini", "google"}
ModelArgs == {"", "gpt-4o", "GPT-4o", "gemini-1.5-pro", "gemini-2.0-flash", "gpt-5", "claude-3"}

\* str.lower() on those strings.
Lower(str) ==
    CASE str = "Gemini" -> "gemini"
      [] str = "GPT-4o" -> "gpt-4o"
      [] OTHER -> str

\* MODEL_PROVIDER_MAP over the values of LLMModel.
MODEL_PROVIDER_MAP ==
    [m \in {"gpt-4o-mini", "gpt-4o", "gpt-4", "gpt-4-turbo", "gpt-3.5-turbo",
            "gemini-pro", "gemini-1.5-pro", "gemini-1.5-flash"} |->
        IF m \in {"gpt-4o-mini", "gpt-4o", "gpt-4", "gpt-4-turbo", "gpt-3.5-turbo"}
        THEN OPENAI ELSE GEMINI]

\* `"gpt" in model_lower or "openai" in model_lower` and `"gemini" in model_lower`
\* for the lower-cased model names of the model.
NamesOpenAI(model_lower) == model_lower \in {"gpt-4o", "gpt-5"}
NamesGemini(model_lower) == model_lower \in {"gemini-1.5-pro", "gemini-2.0-flash"}

NoneConfiguredError ==
    <<"No LLM provider configured. Set OPENAI_API_KEY or GEMINI_API_KEY.">>

\* _resolve_provider_model: [raised, provider, model, error].
ResolveProviderModel(provider, model, cfg) ==
    LET model_lower == Lower(model)
        Ok(p, m) == [raised |-> FALSE, provider |-> p, model |-> m, error |-> << >>]
    IN  IF model # "" /\ model_lower \in DOMAIN MODEL_PROVIDER_MAP
        THEN Ok(MODEL_PROVIDER_MAP[model_lower], model_lower)
        ELSE IF model # "" /\ NamesOpenAI(model_lower) THEN Ok(OPENAI, model_lower)
        ELSE IF model # "" /\ NamesGemini(model_lower) THEN Ok(GEMINI, model_lower)
        ELSE IF provider # ""
        THEN IF Lower(provider) = "gemini"
             THEN Ok(GEMINI, IF model # "" THEN model ELSE "gemini-1.5-flash")
             ELSE Ok(OPENAI, IF model # "" THEN model ELSE "gpt-4o-mini")
        ELSE IF cfg.openai_client THEN Ok(OPENAI, "gpt-4o-mini")
        ELSE IF cfg.gemini_configured THEN Ok(GEMINI, "gemini-1.5-flash")
        ELSE [raised |-> TRUE, provider |-> "", model |-> "", error |-> NoneConfiguredError]

\* self.openai_client / self.gemini_configured
Configured(p, cfg) == IF p = OPENAI THEN cfg.openai_client ELSE cfg.gemini_configured

NotConfiguredError(p) ==
    IF p = OPENAI
    THEN <<"OpenAI client not configured. Set OPENAI_API_KEY in environment.">>
    ELSE <<"Gemini client not configured. Set GEMINI_API_KEY in environment.">>

\* What a provider's SDK may do with a request: answer with a text, answer with
\* an empty text, or fail with a reason of its own.
SdkOutcomes(p) ==
    {[ok |-> TRUE, text |-> <<p, " reply">>],
     [ok |-> TRUE, text |-> << >>],
     [ok |-> FALSE, text |-> <<p, " API error">>]}

\* _generate_openai / _generate_gemini under an SDK outcome: [ok, text].
GenerateWith(p, cfg, sdk) ==
    IF ~Configured(p, cfg) THEN [ok |-> FALSE, text |-> NotConfiguredError(p)]
    ELSE IF ~sdk.ok THEN sdk
    ELSE [ok |-> TRUE,
          text |-> IF sdk.text # << >> THEN sdk.text ELSE <<"No response generated.">>]

\* A faulty fallback choice: the provider that just failed is tried again.
SameProvider(failed_provider) == failed_provider

\* _fallback_generate's choice of provider.
FallbackProvider(failed_provider) == IF failed_provider = OPENAI THEN GEMINI ELSE OPENAI

FallbackModel(p) == IF p = OPENAI THEN "gpt-4o-mini" ELSE "gemini-1.5-flash"

\* The ValueError raised at lines 362-365.
BothFailedError(failed_provider, fallback_provider, fallback_error) ==
    <<"Both LLM providers failed. Primary: ", failed_provider,
      ", Fallback: ", fallback_provider, ". Error: ">> \o fallback_error

\* generate, lines 119-123: a fresh call and its provider resolution.
GenCall(args) ==
    [pc |-> "resolve", args |-> args, resolved |-> [provider |-> "", model |-> ""],
     calls |-> << >>, result |-> << >>]

GenResolveStep(g, cfg) ==
    LET r == ResolveProviderModel(g.args.provider, g.args.model, cfg)
    IN  IF r.raised
        THEN [g EXCEPT !.pc = "raised", !.result = r.error]
        ELSE [g EXCEPT !.pc = "primary",
                       !.resolved = [provider |-> r.provider, model |-> r.model]]

\* generate, lines 134-159: the primary attempt.
GenPrimaryStep(g, cfg, sdk) ==
    LET p == g.resolved.provider
        o == GenerateWith(p, cfg, sdk)
        calls == Append(g.calls, [provider |-> p, model |-> g.resolved.model,
                                  ok |-> o.ok, text |-> o.text])
    IN  IF o.ok THEN [g EXCEPT !.pc = "returned", !.calls = calls, !.result = o.text]
        ELSE IF g.args.enable_fallback THEN [g EXCEPT !.pc = "fallback", !.calls = calls]
        ELSE [g EXCEPT !.pc = "raised", !.calls = calls, !.result = o.text]

\* _fallback_generate, lines 318-365.
GenFallbackStep(g, cfg, sdk) ==
    LET failed_provider == g.resolved.provider
        fallback_provider == FallbackProvider(failed_provider)
    IN  IF Configured(fallback_provider, cfg)
        THEN LET o == GenerateWith(fallback_provider, cfg, sdk)
                 calls == Append(g.calls, [provider |-> fallback_provider,
                                           model |-> FallbackModel(fallback_provider),
                                           ok |-> o.ok, text |-> o.text])
             IN  IF o.ok
                 THEN [g EXCEPT !.pc = "returned", !.calls = calls, !.result = o.text]
                 ELSE [g EXCEPT !.pc = "raised", !.calls = calls,
                                !.result = BothFailedError(failed_provider,
                                                           fallback_provider, o.text)]
        ELSE [g EXCEPT !.pc = "raised",
                       !.result = BothFailedError(failed_provider, fallback_provider,
                            <<"Fallback provider ", fallback_provider, " not configured">>)]

\* generate as a function of what the two providers' SDKs do: the finished call.
Generate(args, cfg, sdkPrimary, sdkFallback) ==
    LET g1 == GenResolveStep(GenCall(args), cfg)
        g2 == IF g1.pc = "primary" THEN GenPrimaryStep(g1, cfg, sdkPrimary) ELSE g1
    IN  IF g2.pc = "fallback" THEN GenFallbackStep(g2, cfg, sdkFallback) ELSE g2

(***************************************************************************)
(* generate as a state machine (specification SpecGen).                    *)
(***************************************************************************)
GenArgs == [provider : ProviderArgs, model : ModelArgs, enable_fallback : BOOLEAN]

InitGen ==
    /\ llm \in [openai_client : BOOLEAN, gemini_configured : BOOLEAN]
    /\ gen \in {GenCall(a) : a \in GenArgs}
    /\ definition = EmptyDefinition
    /\ kahn = NoKahn
    /\ sortPc = "idle"
    /\ svc = NoSvc
    /\ subs = NoSubs
    /\ svcRaised = << >>
    /\ exec = NoExec

GenResolve ==
    /\ gen.pc = "resolve"
    /\ gen' = GenResolveStep(gen, llm)
    /\ UNCHANGED <<llm, sortVars, svcVars, execVars>>

GenPrimary ==
    /\ gen.pc = "primary"
    /\ \E sdk \in SdkOutcomes(gen.resolved.provider) : gen' = GenPrimaryStep(gen, llm, sdk)
    /\ UNCHANGED <<llm, sortVars, svcVars, execVars>>

GenFallback ==
    /\ gen.pc = "fallback"
    /\ \E sdk \in SdkOutcomes(FallbackProvider(gen.resolved.provider)) :
          gen' = GenFallbackStep(gen, llm, sdk)
    /\ UNCHANGED <<llm, sortVars, svcVars, execVars>>

NextGen == GenResolve \/ GenPrimary \/ GenFallback

SpecGen == InitGen /\ [][NextGen]_vars

(***************************************************************************)
(* C4, C5.                                                                 *)
(***************************************************************************)
GenFinished == gen.pc \in {"returned", "raised"}

\* Order and number of the provider attempts of one generate call: at most two,
\* the first to the resolved provider, the second to the other provider and only
\* after the first has failed; a text returned after a second attempt is the
\* second provider's.
GenAttemptsInOrder ==
    /\ Len(gen.calls) <= 2
    /\ gen.calls # << >> =>
          /\ gen.calls[1].provider = gen.resolved.provider
          /\ gen.calls[1].model = gen.resolved.model
    /\ Len(gen.calls) = 2 =>
          /\ ~gen.calls[1].ok
          /\ gen.calls[2].provider # gen.calls[1].provider
    /\ (gen.pc = "returned" /\ Len(gen.calls) = 2) =>
          gen.calls[2].ok /\ gen.result = gen.calls[2].text
    /\ (gen.pc = "returned" /\ Len(gen.calls) = 1) =>
          gen.calls[1].ok /\ gen.result = gen.calls[1].text

\* C4 as stated: the attempts are ordered as above, and generate raises only
\* after both providers have been attempted and have failed.
C4_Original ==
    gen.pc # "idle" =>
        /\ GenAttemptsInOrder
        /\ gen.pc = "raised" =>
              Len(gen.calls) = 2 /\ ~gen.calls[1].ok /\ ~gen.calls[2].ok

\* C4 amended: the attempts are ordered as above; generate raises only (i) before
\* any attempt, when neither the provider nor the model name selects a provider
\* and none is configured, or (ii) after the primary attempt has failed and the
\* secondary could not be tried (fallback disabled, or the secondary provider not
\* configured), or (iii) after both attempts have failed.
C4_ProviderFallback ==
    gen.pc # "idle" =>
        /\ GenAttemptsInOrder
        /\ gen.pc = "raised" =>
              \/ /\ gen.calls = << >>
                 /\ gen.args.provider = ""
                 /\ ~llm.openai_client /\ ~llm.gemini_configured
              \/ /\ Len(gen.calls) = 1 /\ ~gen.calls[1].ok
                 /\ \/ ~gen.args.enable_fallback
                    \/ ~Configured(FallbackProvider(gen.resolved.provider), llm)
              \/ Len(gen.calls) = 2 /\ ~gen.calls[1].ok /\ ~gen.calls[2].ok
        /\ (gen.pc = "fallback" \/ Len(gen.calls) = 2) => gen.args.enable_fallback

\* The primary failed, the secondary answered, and generate returned its text.
C4_Witness ==
    /\ gen.pc = "returned"
    /\ Len(gen.calls) = 2
    /\ gen.calls[2].ok
    /\ gen.result = <<GEMINI, " reply">>

\* C5 as stated: when the primary call and the fallback call both fail, the error
\* generate raises contains the primary's failure reason and the fallback's.
C5_Original ==
    (gen.pc = "raised" /\ Len(gen.calls) = 2) =>
        /\ Contains(gen.result, gen.calls[1].text)
        /\ Contains(gen.result, gen.calls[2].text)

(***************************************************************************)
(* Execution log service (ExecutionLogService).                            *)
(*                                                                         *)
(* The service runs on one asyncio event loop.  Its lock is never held     *)
(* across a suspension (every `async with self._lock` body is plain        *)
(* assignments, or put() on an unbounded asyncio.Queue, which does not     *)
(* wait), so acquiring it never waits either, and no `await` inside        *)
(* start_execution, log, log_node_*, complete_execution, or the            *)
(* registration part of subscribe hands control to another task: each of   *)
(* them runs as one step.  The only suspension points are subscribe's      *)
(* queue.get() and its yields.                                             *)
(*                                                                         *)
(* svc = [executions, subscribers, queues, clock]:                         *)
(*   executions   self._executions: execution_id -> WorkflowExecutionContext *)
(*   subscribers  self._subscribers: execution_id -> list of queues; a     *)
(*                missing key of the defaultdict is the empty list         *)
(*   queues       the content of each subscriber's asyncio.Queue           *)
(*   clock        the reading datetime.utcnow() gave last                  *)
(***************************************************************************)
\* `None` put on a queue: the end-of-stream sentinel.
EndOfStream == [sentinel |-> TRUE]

\* node_id = None
NoNode == 0

\* An id no execution ever has (uuid4 values cannot be guessed in advance).
UnknownExecution == 0

\* A faulty id source: every execution is given the same id.
SameExecutionId(s) == 1

\* uuid4(): an id that no execution has yet.
NewExecutionId(s) == Cardinality(DOMAIN s.executions) + 1

Known(s, execution_id) == execution_id \in DOMAIN s.executions

\* self._subscribers.get(execution_id, [])
SubscribersOf(s, execution_id) ==
    IF execution_id \in DOMAIN s.subscribers THEN s.subscribers[execution_id] ELSE << >>

\* log, lines 144-147: completed / total * 100 as the exact ratio <<num, den>>;
\* None (<< >>) when total_nodes is 0.
Progress(context) ==
    IF context.total_nodes > 0
    THEN <<context.completed_nodes * 100, context.total_nodes>>
    ELSE << >>

\* log, lines 149-162.  uuid4 ids are unique; an entry is identified by its
\* execution and its position in that execution's log.
NewEntry(context, level, message, node_id, node_type, metadata) ==
    [id          |-> <<context.execution_id, Len(context.logs) + 1>>,
     level       |-> level,
     message     |-> message,
     workflow_id |-> context.workflow_id,
     execution_id |-> context.execution_id,
     node_id     |-> node_id,
     node_type   |-> node_type,
     step        |-> context.completed_nodes,
     total_steps |-> context.total_nodes,
     progress    |-> Progress(context),
     metadata    |-> metadata]

RECURSIVE PutAll(_, _, _)
\* `for queue in subscribers: await queue.put(item)`
PutAll(queues, subscribers, item) ==
    IF subscribers = << >> THEN queues
    ELSE PutAll([queues EXCEPT ![Head(subscribers)] = Append(@, item)],
                Tail(subscribers), item)

\* _notify_subscribers
NotifySubscribers(queues, subscribers, entry) == PutAll(queues, subscribers, entry)

\* log for a known execution_id (lines 140-172): append, then fan out.
Log(s, execution_id, level, message, node_id, node_type, metadata) ==
    LET context == s.executions[execution_id]
        entry == NewEntry(context, level, message, node_id, node_type, metadata)
    IN  [s EXCEPT
            !.executions[execution_id].logs = Append(@, entry),
            !.executions[execution_id].current_node =
                IF node_id # NoNode THEN node_id ELSE @,
            !.queues = NotifySubscribers(@, SubscribersOf(s, execution_id), entry)]

\* The ValueError of line 142.
ExecutionNotFound(execution_id) == <<"Execution ", execution_id, " not found">>

Meta(event, detail) == [event |-> event, detail |-> detail]

\* start_execution
StartExecution(s, workflow_id, user_id, total_nodes) ==
    LET execution_id == NewExecutionId(s)
        context == [workflow_id |-> workflow_id, execution_id |-> execution_id,
                    user_id |-> user_id, status |-> "running", ended_at |-> 0,
                    total_nodes |-> total_nodes, completed_nodes |-> 0,
                    current_node |-> NoNode, logs |-> << >>, error |-> << >>]
        s1 == [s EXCEPT !.executions =
                  [e \in DOMAIN @ \cup {execution_id} |->
                      IF e = execution_id THEN context ELSE @[e]]]
    IN  Log(s1, execution_id, "INFO", <<"Workflow execution started">>, NoNode, "",
            Meta("", << >>))

\* log_node_start
LogNodeStart(s, execution_id, node_id, node_type, node_name) ==
    Log(s, execution_id, "INFO", <<"Starting node: ", node_name>>, node_id, node_type,
        Meta("node_started", << >>))

\* log_node_complete for a known execution_id: the counter first, then the entry.
LogNodeComplete(s, execution_id, node_id, node_type, output_summary) ==
    Log([s EXCEPT !.executions[execution_id].completed_nodes = @ + 1],
        execution_id, "INFO", <<"Node completed successfully">>, node_id, node_type,
        Meta("node_completed", output_summary))

\* log_node_error
LogNodeError(s, execution_id, node_id, node_type, error) ==
    Log(s, execution_id, "ERROR", <<"Node execution failed: ">> \o error, node_id,
        node_type, Meta("node_error", error))

\* A faulty lookup: the subscribers of an unknown id are sent the message before
\* the error is raised.
LogCallNotifying(s, execution_id, level, message, node_id, node_type, metadata) ==
    IF Known(s, execution_id)
    THEN [svc |-> Log(s, execution_id, level, message, node_id, node_type, metadata),
          raised |-> << >>]
    ELSE [svc |-> [s EXCEPT !.queues =
                      PutAll(@, SubscribersOf(s, execution_id), [message |-> message])],
          raised |-> ExecutionNotFound(execution_id)]

\* log on any execution_id (lines 140-172): the lookup of line 140 raises before
\* anything is built, appended or fanned out.  The outcome is the service state
\* afterwards and the error raised (<< >> for none).
LogCall(s, execution_id, level, message, node_id, node_type, metadata) ==
    IF Known(s, execution_id)
    THEN [svc |-> Log(s, execution_id, level, message, node_id, node_type, metadata),
          raised |-> << >>]
    ELSE [svc |-> s, raised |-> ExecutionNotFound(execution_id)]

\* log_node_start on any execution_id
LogNodeStartCall(s, execution_id, node_id, node_type, node_name) ==
    LogCall(s, execution_id, "INFO", <<"Starting node: ", node_name>>, node_id,
            node_type, Meta("node_started", << >>))

\* log_node_complete on any execution_id: `if context:` guards the counter
\* (lines 200-203), then log raises for an unknown id.
LogNodeCompleteCall(s, execution_id, node_id, node_type, output_summary) ==
    LogCall(IF Known(s, execution_id)
            THEN [s EXCEPT !.executions[execution_id].completed_nodes = @ + 1]
            ELSE s,
            execution_id, "INFO", <<"Node completed successfully">>, node_id,
            node_type, Meta("node_completed", output_summary))

\* log_node_error on any execution_id
LogNodeErrorCall(s, execution_id, node_id, node_type, error) ==
    LogCall(s, execution_id, "ERROR", <<"Node execution failed: ">> \o error, node_id,
            node_type, Meta("node_error", error))

\* The four logging calls a caller can make with an execution_id.
LogCalls(s, execution_id) ==
    {LogCall(s, execution_id, "INFO", <<"progress">>, NoNode, "", Meta("", << >>)),
     LogNodeStartCall(s, execution_id, 1, "input", "user_query"),
     LogNodeCompleteCall(s, execution_id, 1, "input", <<"ok">>),
     LogNodeErrorCall(s, execution_id, 1, "input", <<"boom">>)}

\* A faulty close: the subscriber list is dropped but no sentinel is sent.
DropSubscribers(s, execution_id) ==
    [s EXCEPT !.subscribers =
        [e \in DOMAIN @ |-> IF e = execution_id THEN << >> ELSE @[e]]]

\* _close_subscribers: the sentinel to every queue, then the key is popped.
CloseSubscribers(s, execution_id) ==
    [s EXCEPT
        !.queues = PutAll(@, SubscribersOf(s, execution_id), EndOfStream),
        !.subscribers = [e \in DOMAIN @ |-> IF e = execution_id THEN << >> ELSE @[e]]]

\* complete_execution (an unknown execution_id returns at line 244).
CompleteExecution(s, execution_id, status, error) ==
    IF ~Known(s, execution_id) THEN s
    ELSE LET s1 == [s EXCEPT !.executions[execution_id].status = status,
                             !.executions[execution_id].ended_at = s.clock + 1,
                             !.executions[execution_id].error = error,
                             !.clock = @ + 1]
             message == <<"Workflow execution ", status>> \o
                        (IF error # << >> THEN <<": ">> \o error ELSE << >>)
             s2 == Log(s1, execution_id,
                       IF status = "completed" THEN "INFO" ELSE "ERROR",
                       message, NoNode, "", Meta("execution_completed", <<status>>))
         IN  CloseSubscribers(s2, execution_id)

\* A faulty backlog: a new subscriber is not sent the entries logged so far.
NoBacklog(s, execution_id) == << >>

\* subscribe, lines 287-290: the entries a new subscriber's queue is filled with.
Backlog(s, execution_id) ==
    IF Known(s, execution_id) THEN s.executions[execution_id].logs ELSE << >>

\* subscribe, lines 281-290: a new queue is registered and filled.
Register(s, queue, execution_id) ==
    [s EXCEPT
        !.subscribers = [e \in DOMAIN @ |->
                            IF e = execution_id THEN Append(@[e], queue) ELSE @[e]],
        !.queues[queue] = Backlog(s, execution_id)]

\* A faulty removal: the whole subscriber list of the execution is dropped.
DeregisterAll(s, queue, execution_id) ==
    [s EXCEPT !.subscribers = [e \in DOMAIN @ |->
        IF e = execution_id THEN << >> ELSE @[e]]]

\* subscribe, lines 310-313: the queue is removed from the list if it is there.
Deregister(s, queue, execution_id) ==
    [s EXCEPT !.subscribers = [e \in DOMAIN @ |->
        IF e = execution_id
        THEN SelectSeq(@[e], LAMBDA q : q # queue)
        ELSE @[e]]]

\* get_execution_logs
GetExecutionLogs(s, execution_id) ==
    IF Known(s, execution_id) THEN s.executions[execution_id].logs ELSE << >>

(***************************************************************************)
(* The log service under direct calls and subscribers (specification       *)
(* SpecLog).  Callers are the tasks of the event loop; each service call   *)
(* is one step (see above).                                                *)
(***************************************************************************)
Statuses == {"completed", "failed", "cancelled"}

Terminal(status) == status \in Statuses

LogRoom(e) == Known(svc, e) /\ Len(svc.executions[e].logs) < MaxLogEntries

InitLog ==
    /\ svc = NoSvc
    /\ subs = NoSubs
    /\ svcRaised = << >>
    /\ definition = EmptyDefinition
    /\ kahn = NoKahn
    /\ sortPc = "idle"
    /\ llm = NoLLM
    /\ gen = NoGen
    /\ exec = NoExec

SvcStart ==
    /\ Cardinality(DOMAIN svc.executions) < MaxExecutions
    /\ svc' = StartExecution(svc, "wf", "", MaxLogEntries)
    /\ svcRaised' = << >>
    /\ UNCHANGED <<subs, sortVars, genVars, execVars>>

\* log / log_node_start / log_node_error on a known execution
SvcLog(e) ==
    /\ LogRoom(e)
    /\ \/ svc' = LogNodeStart(svc, e, 1, "input", <<"user_query">>)
       \/ svc' = LogNodeError(svc, e, 1, "input", <<"boom">>)
    /\ svcRaised' = << >>
    /\ UNCHANGED <<subs, sortVars, genVars, execVars>>

SvcLogNodeComplete(e) ==
    /\ LogRoom(e)
    /\ svc' = LogNodeComplete(svc, e, 1, "input", <<"None">>)
    /\ svcRaised' = << >>
    /\ UNCHANGED <<subs, sortVars, genVars, execVars>>

\* log and its wrappers on an execution_id the service does not know: line 142
SvcLogUnknown ==
    \E call \in LogCalls(svc, UnknownExecution) :
        /\ svc' = call.svc
        /\ svcRaised' = call.raised
        /\ UNCHANGED <<subs, sortVars, genVars, execVars>>

SvcComplete(e) ==
    /\ e = UnknownExecution \/ LogRoom(e)
    /\ \E status \in Statuses :
          svc' = CompleteExecution(svc, e, status,
                                   IF status = "failed" THEN <<"boom">> ELSE << >>)
    /\ svcRaised' = << >>
    /\ UNCHANGED <<subs, sortVars, genVars, execVars>>

\* subscribe up to its first queue.get()
Subscribe(q, e) ==
    /\ subs[q].pc = "new"
    /\ svc' = Register(svc, q, e)
    /\ subs' = [subs EXCEPT ![q].pc = "waiting", ![q].execution_id = e,
                            ![q].backlog = Len(Backlog(svc, e)),
                            ![q].late = Known(svc, e) /\ Terminal(svc.executions[e].status)]
    /\ UNCHANGED <<svcRaised, sortVars, genVars, execVars>>

\* lines 295-298: an item arrives; the sentinel ends the generator (and its
\* finally clause runs), anything else is yielded
SubReceive(q) ==
    /\ subs[q].pc = "waiting"
    /\ svc.queues[q] # << >>
    /\ LET item == Head(svc.queues[q])
           s1 == [svc EXCEPT !.queues[q] = Tail(@)]
       IN  IF item = EndOfStream
           THEN /\ svc' = Deregister(s1, q, subs[q].execution_id)
                /\ subs' = [subs EXCEPT ![q].pc = "done"]
           ELSE /\ svc' = s1
                /\ subs' = [subs EXCEPT ![q].received = Append(@, item)]
    /\ UNCHANGED <<svcRaised, sortVars, genVars, execVars>>

\* A faulty heartbeat: the heartbeat entry is written through log, so that it is
\* appended to the execution's log and fanned out to the subscribers.
SubHeartbeatLogged(q) ==
    /\ subs[q].pc = "waiting"
    /\ svc.queues[q] = << >>
    /\ subs[q].heartbeats < MaxHeartbeats
    /\ subs' = [subs EXCEPT ![q].heartbeats = @ + 1]
    /\ svc' = LogCall(svc, subs[q].execution_id, "DEBUG", <<"heartbeat">>, NoNode, "",
                      Meta("heartbeat", << >>)).svc
    /\ UNCHANGED <<svcRaised, sortVars, genVars, execVars>>

\* lines 299-309: nothing arrived within the timeout; a heartbeat is yielded
SubHeartbeat(q) ==
    /\ subs[q].pc = "waiting"
    /\ svc.queues[q] = << >>
    /\ subs[q].heartbeats < MaxHeartbeats
    /\ subs' = [subs EXCEPT ![q].heartbeats = @ + 1]
    /\ UNCHANGED <<svc, svcRaised, sortVars, genVars, execVars>>

\* the consumer closes the generator (client disconnect): lines 310-313
SubDetach(q) ==
    /\ subs[q].pc = "waiting"
    /\ svc' = Deregister(svc, q, subs[q].execution_id)
    /\ subs' = [subs EXCEPT ![q].pc = "done"]
    /\ UNCHANGED <<svcRaised, sortVars, genVars, execVars>>

NextLog ==
    \/ SvcStart
    \/ SvcLogUnknown
    \/ \E e \in ExecutionIds : SvcLog(e) \/ SvcLogNodeComplete(e)
    \/ \E e \in ExecutionIds \cup {UnknownExecution} : SvcComplete(e)
    \/ \E q \in Queues :
          \/ \E e \in DOMAIN svc.executions \cup {UnknownExecution} : Subscribe(q, e)
          \/ SubReceive(q)
          \/ SubHeartbeat(q)
          \/ SubDetach(q)

SpecLog == InitLog /\ [][NextLog]_vars

\* Whoever iterates a subscribe generator keeps asking for the next item.
SpecLogFair == SpecLog /\ \A q \in Queues : WF_vars(SubReceive(q))

(***************************************************************************)
(* C8, C9, C10.                                                            *)
(***************************************************************************)
Registered(q) == q \in Range(SubscribersOf(svc, subs[q].execution_id))

Closed(q) == EndOfStream \in Range(svc.queues[q])

\* The non-heartbeat entries subscriber q has been given or will be given from
\* what is queued for it now.
Stream(q) == subs[q].received \o SelectSeq(svc.queues[q], LAMBDA item : item # EndOfStream)

LogsOf(q) == GetExecutionLogs(svc, subs[q].execution_id)

\* C8: whatever the interleaving of service calls and subscribers, what a
\* subscriber has received plus what is queued for it is the execution's log in
\* append order, each entry once (a prefix of the log); as long as it is
\* registered nothing of the log is missing from it.
C8_NoGapsNoDuplicates ==
    \A q \in Queues :
        subs[q].pc # "new" =>
            /\ IsPrefix(Stream(q), LogsOf(q))
            /\ Registered(q) => Stream(q) = LogsOf(q)
            /\ \A i \in DOMAIN svc.queues[q] :
                  svc.queues[q][i] = EndOfStream => i = Len(svc.queues[q])

\* A subscriber that joined after the first entry has received the backlog and
\* two live entries, while another subscriber received the same three.
C8_Witness ==
    \E q1, q2 \in Queues :
        /\ q1 # q2
        /\ subs[q1].backlog = 1 /\ Len(subs[q1].received) = 3
        /\ subs[q2].backlog = 2 /\ subs[q2].received = subs[q1].received
        /\ subs[q1].received = LogsOf(q1)

\* C9 as stated: a subscriber that subscribed after complete_execution had
\* finished never waits on an empty queue: having been given the backlog it has
\* been given the completion signal too.
C9_Original ==
    \A q \in Queues :
        (subs[q].late /\ subs[q].pc = "waiting") => svc.queues[q] # << >>

\* complete_execution has just run for execution e.
CompletionStep(e) ==
    /\ Known(svc, e)
    /\ Len(svc'.executions[e].logs) = Len(svc.executions[e].logs) + 1
    /\ Last(svc'.executions[e].logs).metadata.event = "execution_completed"

\* C10: complete_execution appends, to every queue registered for the execution,
\* the completion entry and then the sentinel, behind whatever was queued, and
\* empties the execution's subscriber list; a queue that holds the sentinel is no
\* longer registered; and every subscriber whose queue holds the sentinel
\* eventually ends.
C10_CompletionUnblocks ==
    /\ [][\A e \in ExecutionIds :
            CompletionStep(e) =>
                /\ \A q \in Range(SubscribersOf(svc, e)) :
                      svc'.queues[q] = svc.queues[q] \o
                          <<Last(svc'.executions[e].logs), EndOfStream>>
                /\ SubscribersOf(svc', e) = << >>]_vars
    /\ [](\A q \in Queues : Closed(q) => ~Registered(q))
    /\ \A q \in Queues : Closed(q) ~> (subs[q].pc = "done")

\* Two subscribers were registered when the execution completed; both have been
\* given the completion entry, met the sentinel and ended.
C10_Witness ==
    \E q1, q2 \in Queues :
        /\ q1 # q2
        /\ subs[q1].pc = "done" /\ subs[q2].pc = "done"
        /\ svc.queues[q1] = << >> /\ svc.queues[q2] = << >>
        /\ subs[q1].received # << >>
        /\ Last(subs[q1].received).metadata.event = "execution_completed"
        /\ subs[q2].received # << >>
        /\ Last(subs[q2].received).metadata.event = "execution_completed"
        /\ subs[q1].backlog < subs[q2].backlog

(***************************************************************************)
(* The scheduler as a state machine (specification SpecSort).              *)
(***************************************************************************)
EmptyData == [query |-> << >>]

\* Raw node types a definition is drawn from: one recognized, one unknown.
SortRawTypes == {"input", "note"}

SortNodeLists ==
    UNION {{[i \in 1..n |-> [id |-> i, type |-> t[i], data |-> EmptyData]] :
                t \in [1..n -> SortRawTypes]} : n \in 0..MaxNodes}

\* Edges may name ids that no node declares.
SortEdgeLists ==
    SeqsUpTo([source : 1..MaxNodes, target : 1..MaxNodes], MaxEdges)

InitSort ==
    /\ definition \in [nodes : SortNodeLists, edges : SortEdgeLists]
    /\ kahn = NoKahn
    /\ sortPc = "build"
    /\ llm = NoLLM
    /\ gen = NoGen
    /\ svc = NoSvc
    /\ subs = NoSubs
    /\ svcRaised = << >>
    /\ exec = NoExec

\* Lines 150-170.  The iteration order of the set valid_node_ids is not fixed by
\* the language (string hashes are salted per process): any order may occur.
SortBuild ==
    /\ sortPc = "build"
    /\ \E key_order \in Perms(DOMAIN ParseNodeTypes(definition.nodes)) :
          kahn' = KahnBuild(definition.edges, ParseNodeTypes(definition.nodes), key_order)
    /\ sortPc' = "loop"
    /\ UNCHANGED <<definition, genVars, svcVars, execVars>>

\* Lines 172-179.
SortPop ==
    /\ sortPc = "loop"
    /\ kahn.queue # << >>
    /\ kahn' = KahnStep(kahn)
    /\ UNCHANGED <<definition, sortPc, genVars, svcVars, execVars>>

\* Line 181.
SortReturn ==
    /\ sortPc = "loop"
    /\ kahn.queue = << >>
    /\ sortPc' = "done"
    /\ UNCHANGED <<definition, kahn, genVars, svcVars, execVars>>

NextSort == SortBuild \/ SortPop \/ SortReturn

SpecSort == InitSort /\ [][NextSort]_vars

\* The sort is a plain loop that runs to completion: it keeps taking steps.
SpecSortFair == SpecSort /\ WF_vars(NextSort)

(***************************************************************************)
(* C1.                                                                     *)
(***************************************************************************)
SortValid == DOMAIN ParseNodeTypes(definition.nodes)

SortRetained == Range(RetainedEdges(definition.edges, SortValid))

Placed(id) == id \in Range(kahn.result)

\* C1 as stated: when the sort has returned, every edge (s,t) between recognized
\* nodes has s in execution_order at a strictly smaller index than t.
C1_Original ==
    sortPc = "done" =>
        \A e \in SortRetained :
            /\ Placed(e.source) /\ Placed(e.target)
            /\ IndexOf(kahn.result, e.source) < IndexOf(kahn.result, e.target)

\* C1 amended: at every point of the sort, a node that has been placed in the
\* order has every retained predecessor placed at a strictly smaller index
\* (nodes on or behind a cycle are never placed, so their edges are exempt).
C1_TopologicalValidity ==
    sortPc \in {"loop", "done"} =>
        \A e \in SortRetained :
            Placed(e.target) =>
                /\ Placed(e.source)
                /\ IndexOf(kahn.result, e.source) < IndexOf(kahn.result, e.target)

\* A finished sort that placed three nodes, one with two retained predecessors.
C1_Witness ==
    /\ sortPc = "done"
    /\ Len(kahn.result) = 3
    /\ \E e1, e2 \in SortRetained :
          e1.target = e2.target /\ e1.source # e2.source /\ Placed(e1.target)


(***************************************************************************)
(* Workflow executor: WorkflowExecutor.execute and the node components.    *)
(*                                                                         *)
(* A dict is a function on the keys it holds (<< >> is the empty dict).    *)
(* A text is a sequence of tokens, "" is << >>.  Scores, thresholds and    *)
(* temperatures are written in hundredths (0.7 is 70).  Texts of the model *)
(* are shorter than every slice bound of the code ([:100], [:50]), so a    *)
(* slice of a text is the text.                                            *)
(***************************************************************************)
\* dict.get(key, default)
Get(d, key, default) == IF key \in DOMAIN d THEN d[key] ELSE default

\* d[key] = value
Put(d, key, value) == [k \in DOMAIN d \cup {key} |-> IF k = key THEN value ELSE d[k]]

\* The JSON number 42 where a query text is expected, kept apart from every text.
Number42 == <<"<int 42>">>

IsStr(v) == v # Number42

\* bool(v): "" is falsy; a non-empty text and 42 are truthy
Truthy(v) == v # << >>

\* The TypeError of v[:100] on an int.
NotSubscriptable == <<"'int' object is not subscriptable">>

\* WorkflowExecutor.NODE_TYPE_LABELS
NODE_TYPE_LABELS ==
    [t \in {"user_query", "knowledge_base", "llm_engine", "output"} |->
        CASE t = "user_query" -> "input"
          [] t = "knowledge_base" -> "vector_search"
          [] t = "llm_engine" -> "llm"
          [] OTHER -> "output"]

\* _extract_node_settings
ExtractNodeSettings(node, component_type) ==
    LET data == Get(node, "data", << >>)
    IN  CASE component_type = "knowledge_base" ->
                [enabled   |-> Get(data, "enabled", TRUE),
                 topK      |-> Get(data, "topK", Get(data, "top_k", 3)),
                 threshold |-> Get(data, "threshold", 70)]
          [] component_type = "llm_engine" ->
                [provider     |-> Get(data, "provider", "google"),
                 model        |-> Get(data, "model", "gemini-2.0-flash"),
                 systemPrompt |-> Get(data, "systemPrompt", << >>),
                 temperature  |-> Get(data, "temperature", 70),
                 maxTokens    |-> Get(data, "maxTokens", 4096)]
          [] component_type = "user_query" ->
                [query |-> Get(data, "query",
                               Get(data, "userQuery", Get(data, "value", << >>)))]
          [] OTHER -> data

\* _parse_workflow under a given iteration order of the set valid_node_ids.
ParseWorkflow(defn, key_order) ==
    LET nodes == Get(defn, "nodes", << >>)
        edges == Get(defn, "edges", << >>)
        node_types == ParseNodeTypes(nodes)
        present_components == {node_types[id] : id \in DOMAIN node_types}
    IN  [present_components |-> present_components,
         node_map        |-> ParseNodeMap(nodes),
         node_types      |-> node_types,
         execution_order |-> TopologicalSort(edges, node_types, key_order),
         has_kb          |-> "knowledge_base" \in present_components,
         has_llm         |-> "llm_engine" \in present_components]

RECURSIVE FirstInputQuery(_, _, _)
\* execute, lines 246-252: the loop over execution_order, entered with a falsy
\* query; it stops at the first Input node whose query setting is truthy.
FirstInputQuery(order, info, query) ==
    IF order = << >> THEN query
    ELSE IF info.node_types[Head(order)] = "user_query"
    THEN LET q == ExtractNodeSettings(info.node_map[Head(order)], "user_query").query
         IN  IF Truthy(q) THEN q ELSE FirstInputQuery(Tail(order), info, q)
    ELSE FirstInputQuery(Tail(order), info, query)

\* A faulty resolution: the Input nodes are not consulted.
PayloadQueryOnly(payload, info) == Get(payload, "query", << >>)

\* execute, lines 244-252: the active query.
ResolveQuery(payload, info) ==
    LET query == Get(payload, "query", << >>)
    IN  IF Truthy(query) THEN query
        ELSE FirstInputQuery(info.execution_order, info, query)

(***************************************************************************)
(* Retrieval component: KnowledgeBaseComponent.run.                        *)
(***************************************************************************)
\* What the Embedding capability and the vector store may do for one query:
\* fail, or return the nearest chunks, best first, each with a text and a score.
\* A stored chunk may have the text "" (VectorStore.add takes any texts, and
\* _search_chromadb yields "" when the store returns no documents field).
SearchOutcomes ==
    {[raised |-> TRUE, results |-> << >>],
     [raised |-> FALSE, results |-> << >>],
     [raised |-> FALSE, results |-> <<[text |-> << >>, score |-> 90]>>],
     [raised |-> FALSE, results |-> <<[text |-> <<"doc A">>, score |-> 90]>>],
     [raised |-> FALSE, results |-> <<[text |-> <<"doc B">>, score |-> 10]>>],
     [raised |-> FALSE, results |-> <<[text |-> <<"doc A">>, score |-> 90],
                                      [text |-> <<"doc B">>, score |-> 10]>>]}

Min(a, b) == IF a <= b THEN a ELSE b

\* f"[Document {i+1} (relevance: {score:.0%})]\n{text}"
DocumentText(index, result) ==
    <<"[Document ", ToString(index), " (relevance: ", ToString(result.score), "%)]\n">>
        \o result.text

RECURSIVE RetrievedTexts(_, _)
\* lines 93-109: the results that carry a text, each numbered by its position
RetrievedTexts(results, index) ==
    IF results = << >> THEN << >>
    ELSE (IF Head(results).text # << >>
          THEN <<[text |-> DocumentText(index, Head(results)),
                  source |-> [index |-> index, score |-> Head(results).score]]>>
          ELSE << >>)
         \o RetrievedTexts(Tail(results), index + 1)

RECURSIVE JoinTexts(_)
\* "\n\n---\n\n".join(retrieved_texts)
JoinTexts(texts) ==
    IF texts = << >> THEN << >>
    ELSE IF Len(texts) = 1 THEN texts[1].text
    ELSE texts[1].text \o <<"\n\n---\n\n">> \o JoinTexts(Tail(texts))

\* KnowledgeBaseComponent.run: [context, result].
KnowledgeBaseRun(payload, context, outcome) ==
    LET query == Get(context, "query", Get(payload, "query", << >>))
        top_k == Get(payload, "top_k", Get(payload, "topK", 3))
        threshold == Get(payload, "threshold", 70)
        Empty(result) == [context |-> Put(context, "context", << >>), result |-> result]
        results == outcome.results
        above == SelectSeq(results, LAMBDA r : r.score >= threshold)
        filtered_results == IF above # << >> THEN above
                            ELSE SubSeq(results, 1, Min(top_k, Len(results)))
        retrieved == RetrievedTexts(filtered_results, 1)
        combined_context == JoinTexts(retrieved)
        sources == [i \in DOMAIN retrieved |-> retrieved[i].source]
        scores == [i \in DOMAIN retrieved |-> retrieved[i].source.score]
    IN  IF ~Truthy(query) THEN Empty([context |-> << >>, chunks |-> 0])
        ELSE IF outcome.raised
        THEN Empty([context |-> << >>, chunks |-> 0, error |-> <<"search failed">>])
        ELSE IF results = << >> THEN Empty([context |-> << >>, chunks |-> 0])
        ELSE [context |-> Put(Put(Put(context, "context", combined_context),
                                  "sources", sources), "scores", scores),
              result  |-> [context |-> combined_context, chunks |-> Len(retrieved),
                           scores |-> scores, sources |-> sources]]

(***************************************************************************)
(* Generation component: LLMEngineComponent.run.                           *)
(***************************************************************************)
NoQueryProvided == <<"No query provided.">>

FailedToGenerate(error) == <<"Failed to generate response: ">> \o error

\* A faulty handler: the failure is reported in the result only.
GenerationFailedSilently(context, error) ==
    [context |-> context,
     result  |-> [answer |-> FailedToGenerate(error), error |-> TRUE]]

\* lines 116-120: generate raised; the message becomes the answer.
GenerationFailed(context, error) ==
    [context |-> Put(context, "answer", FailedToGenerate(error)),
     result  |-> [answer |-> FailedToGenerate(error), error |-> TRUE]]

\* WebSearchService.search returns a text in every case: the formatted
\* results, or a message saying why there are none.
WebSearchResults ==
    {<<"1. title - snippet">>, <<"Web search failed: ", "timeout">>}

WebSearchHeading == <<"\n\n### Web Search Results:\n">>

\* lines 63-76: the search text is appended to the retrieved context
WebContext(payload, kb_context, search_results) ==
    IF Get(payload, "web_search", FALSE) /\ Truthy(search_results)
    THEN kb_context \o WebSearchHeading \o search_results
    ELSE kb_context

\* LLMEngineComponent.run: [context, result, generated], where generated holds
\* the finished generate call, with its arguments, if one was made.
LLMEngineRun(payload, context, cfg, sdkPrimary, sdkFallback, search_results) ==
    LET query == Get(context, "query", Get(payload, "query", << >>))
        prompt == Get(payload, "prompt", << >>)
        kb_context == WebContext(payload, Get(context, "context", << >>), search_results)
        provider == Get(payload, "provider", "")
        model == Get(payload, "model", "")
        temperature == Get(payload, "temperature", 70)
        max_tokens == Get(payload, "max_tokens", 1024)
        g == Generate([query |-> query, context |-> kb_context, prompt |-> prompt,
                       provider |-> provider, model |-> model,
                       temperature |-> temperature, max_tokens |-> max_tokens,
                       enable_fallback |-> TRUE],
                      cfg, sdkPrimary, sdkFallback)
    IN  IF ~Truthy(query)
        THEN [context |-> context,
              result  |-> [answer |-> NoQueryProvided, error |-> TRUE],
              generated |-> << >>]
        ELSE IF g.pc = "returned"
        THEN [context |-> Put(context, "answer", g.result),
              result  |-> [answer |-> g.result, provider |-> provider, model |-> model,
                           has_context |-> Truthy(kb_context),
                           web_search_used |-> Get(payload, "web_search", FALSE)],
              generated |-> <<g>>]
        ELSE [context |-> GenerationFailed(context, g.result).context,
              result  |-> GenerationFailed(context, g.result).result,
              generated |-> <<g>>]

\* OutputComponent.run
OutputRun(payload, context) ==
    [answer |-> Get(context, "answer", Get(payload, "answer", << >>))]

(***************************************************************************)
(* WorkflowExecutor.execute as a state machine (specification SpecExec).   *)
(* The call stops at "returned" with a result, or at "raised" when an      *)
(* exception leaves execute.                                               *)
(***************************************************************************)
\* {**a, **b}
Merge(a, b) == [k \in DOMAIN a \cup DOMAIN b |-> IF k \in DOMAIN b THEN b[k] ELSE a[k]]

\* a or b
Or(a, b) == IF Truthy(a) THEN a ELSE b

\* definition.get("id", ...) of the definitions of the model
WorkflowId == "wf"

NoLLMGuidance ==
    <<"\n\nNo LLM node in workflow. Add an LLM node to generate AI responses.">>

RetrievedBanner == <<"Retrieved from documents:\n\n">>

NoRelevantDocuments == <<"No relevant documents found.">>

ExecutionFailed(error) == <<"Workflow execution failed: ">> \o error

\* A faulty assembly: the retrieved context wins over the generated answer.
AssembleRetrievalFirst(has_llm, has_kb, context, query) ==
    IF has_kb
    THEN IF Truthy(Get(context, "context", << >>))
         THEN RetrievedBanner \o Get(context, "context", << >>)
         ELSE NoRelevantDocuments
    ELSE IF has_llm THEN Get(context, "answer", Get(context, "output", << >>))
    ELSE <<"Query received: ">> \o query \o NoLLMGuidance

\* execute, lines 297-309.
AssembleAnswer(has_llm, has_kb, context, query) ==
    IF has_llm THEN Get(context, "answer", Get(context, "output", << >>))
    ELSE IF has_kb
    THEN IF Truthy(Get(context, "context", << >>))
         THEN RetrievedBanner \o Get(context, "context", << >>)
         ELSE NoRelevantDocuments
    ELSE <<"Query received: ">> \o query \o NoLLMGuidance

\* execute, lines 335-348 (durations and lengths are not modelled).
SuccessResult(call, answer) ==
    ("answer" :> answer) @@ ("query" :> call.query) @@
    ("_execution" :> [execution_id    |-> call.execution_id,
                      workflow_id     |-> WorkflowId,
                      status          |-> "completed",
                      components_used |-> call.info.present_components,
                      kb_used         |-> call.info.has_kb,
                      llm_used        |-> call.info.has_llm])

\* execute, lines 381-391.
FailureResult(call) ==
    ("answer" :> ExecutionFailed(call.raised)) @@ ("error" :> TRUE) @@
    ("_execution" :> [execution_id |-> call.execution_id,
                      workflow_id  |-> WorkflowId,
                      status       |-> "failed",
                      error        |-> call.raised])

\* _summarize_output for the dicts the components return
SummarizeOutput(output) ==
    IF "answer" \in DOMAIN output THEN <<"Answer: ">> \o output["answer"]
    ELSE IF "context" \in DOMAIN output
    THEN <<"Context: len(">> \o output["context"] \o <<") chars">>
    ELSE IF "query" \in DOMAIN output THEN <<"Query: ">> \o output["query"] \o <<"...">>
    ELSE <<"Dict with keys">>

\* The node being dispatched and what execute derives from it (lines 273-279).
NodeId(call) == call.info.execution_order[call.i]

ComponentType(call) == call.info.node_types[NodeId(call)]

NodeLabel(call) ==
    Get(Get(call.info.node_map[NodeId(call)], "data", << >>), "label", ComponentType(call))

Settings(call) == ExtractNodeSettings(call.info.node_map[NodeId(call)], ComponentType(call))

NodeTypeLabel(call) == NODE_TYPE_LABELS[ComponentType(call)]

\* _execute_dynamic_node, lines 514-523: the node is logged completed and the
\* loop of execute moves on.
NodeCompleted(c, s, context, output, generated, searched) ==
    /\ svc' = LogNodeComplete(s, exec[c].execution_id, NodeId(exec[c]),
                              NodeTypeLabel(exec[c]), SummarizeOutput(output))
    /\ exec' = [exec EXCEPT ![c].context = context,
                            ![c].generated = @ \o generated,
                            ![c].searched = @ + searched,
                            ![c].i = @ + 1,
                            ![c].pc = "dispatch"]

\* A faulty handler: the node is logged failed but the exception is swallowed
\* and the loop of execute moves on.
NodeFailedContinuing(c, s, context, error) ==
    /\ svc' = LogNodeError(s, exec[c].execution_id, NodeId(exec[c]),
                           NodeTypeLabel(exec[c]), error)
    /\ exec' = [exec EXCEPT ![c].context = context,
                            ![c].i = @ + 1,
                            ![c].pc = "dispatch"]

\* _execute_dynamic_node, lines 535-553: the node is logged failed and the
\* exception goes on to the handler of execute.
NodeFailed(c, s, context, error) ==
    /\ svc' = LogNodeError(s, exec[c].execution_id, NodeId(exec[c]),
                           NodeTypeLabel(exec[c]), error)
    /\ exec' = [exec EXCEPT ![c].context = context,
                            ![c].raised = error,
                            ![c].pc = "failing"]

\* The nodes a definition of the model is drawn from: Input nodes without a
\* query, with a text and with a number as query; Retrieval nodes enabled and
\* disabled; Generation nodes with the default and with explicit settings; an
\* Output node; a node of a type the alias table does not have.
ExecNodeKinds ==
    {[type |-> "input", data |-> << >>],
     [type |-> "input", data |-> [query |-> <<"node query">>]],
     [type |-> "userQuery", data |-> [query |-> Number42]],
     [type |-> "knowledgeBase", data |-> << >>],
     [type |-> "knowledge_base", data |-> [enabled |-> FALSE]],
     [type |-> "llm", data |-> << >>],
     [type |-> "llmEngine", data |-> [provider |-> "openai", model |-> "gpt-4o",
                                       systemPrompt |-> <<"Answer briefly.">>,
                                       temperature |-> 20, maxTokens |-> 256]],
     [type |-> "output", data |-> << >>],
     [type |-> "note", data |-> << >>]}

ExecNodeLists ==
    UNION {{[i \in 1..n |-> [id |-> i, type |-> k[i].type, data |-> k[i].data]] :
                k \in [1..n -> ExecNodeKinds]} : n \in 0..ExecMaxNodes}

ExecEdgeLists ==
    SeqsUpTo([source : 1..ExecMaxNodes, target : 1..ExecMaxNodes], ExecMaxEdges)

ExecDefinitions == [nodes : ExecNodeLists, edges : ExecEdgeLists]

\* payload: {}, {"query": "hi"}, {"query": 42}, {"query": "hi", "web_search": true}
ExecPayloads ==
    {<< >>, [query |-> <<"hi">>], [query |-> Number42],
     [query |-> <<"hi">>, web_search |-> TRUE]}

NewCall(defn, payload) ==
    [IdleCall EXCEPT !.pc = "called", !.definition = defn, !.payload = payload]

InitExec ==
    /\ exec \in [ExecutionIds -> {NewCall(d, p) : d \in ExecDefinitions, p \in ExecPayloads}]
    /\ llm \in [openai_client : BOOLEAN, gemini_configured : BOOLEAN]
    /\ svc = NoSvc
    /\ subs = NoSubs
    /\ svcRaised = << >>
    /\ gen = NoGen
    /\ definition = EmptyDefinition
    /\ kahn = NoKahn
    /\ sortPc = "idle"

\* execute, lines 221-268: parse, start the execution record, resolve the query.
\* `query[:100] if query else ...` (line 258) raises for a truthy query that is
\* not a text; it is outside the try of line 270.
ExecStart(c) ==
    /\ exec[c].pc = "called"
    /\ \E key_order \in Perms(DOMAIN ParseNodeTypes(Get(exec[c].definition, "nodes", << >>))) :
          LET info == ParseWorkflow(exec[c].definition, key_order)
              query == ResolveQuery(exec[c].payload, info)
              started == [exec[c] EXCEPT !.info = info,
                                         !.execution_id = NewExecutionId(svc),
                                         !.query = query]
          IN  /\ svc' = StartExecution(svc, WorkflowId, "", Len(info.execution_order))
              /\ exec' = [exec EXCEPT ![c] =
                            IF Truthy(query) /\ ~IsStr(query)
                            THEN [started EXCEPT !.pc = "raised", !.raised = NotSubscriptable]
                            ELSE [started EXCEPT !.pc = "dispatch", !.i = 1,
                                                 !.context = Put(<< >>, "query", query)]]
    /\ UNCHANGED <<subs, svcRaised, sortVars, genVars>>

Dispatching(c) == exec[c].pc = "dispatch" /\ exec[c].i <= Len(exec[c].info.execution_order)

Running(c, component_type) == exec[c].pc = "run" /\ ComponentType(exec[c]) = component_type

\* _execute_dynamic_node, lines 407-415: log_node_start
ExecNodeStart(c) ==
    /\ Dispatching(c)
    /\ svc' = LogNodeStart(svc, exec[c].execution_id, NodeId(exec[c]),
                           NodeTypeLabel(exec[c]), NodeLabel(exec[c]))
    /\ exec' = [exec EXCEPT ![c].pc = "run",
                            ![c].dispatched = Append(@, ComponentType(exec[c]))]
    /\ UNCHANGED <<subs, svcRaised, sortVars, genVars>>

\* lines 422-434: the Input node; query[:100] raises for a query that is no text
ExecInputNode(c) ==
    /\ Running(c, "user_query")
    /\ LET query == Or(Get(Settings(exec[c]), "query", << >>),
                       Get(exec[c].payload, "query", << >>))
           context == Put(exec[c].context, "query", query)
       IN  IF IsStr(query)
           THEN NodeCompleted(c, Log(svc, exec[c].execution_id, "INFO",
                                     <<"Query: ">> \o query, NodeId(exec[c]),
                                     NodeTypeLabel(exec[c]), Meta("", << >>)),
                              context, [query |-> query], << >>, 0)
           ELSE NodeFailed(c, svc, context, NotSubscriptable)
    /\ UNCHANGED <<subs, svcRaised, sortVars, genVars>>

\* A faulty Retrieval node: the component is run whatever the settings and the
\* store say.
RetrievalNodeAlwaysSearching(settings, payload, context, doc_count, outcome) ==
    LET kb_payload == Merge(payload,
                            [query |-> Get(context, "query", << >>),
                             top_k |-> Get(settings, "topK", 3),
                             threshold |-> Get(settings, "threshold", 70)])
        ran == KnowledgeBaseRun(kb_payload, context, outcome)
    IN  [context |-> ran.context, result |-> ran.result, searched |-> 1,
         level |-> "INFO",
         message |-> <<"Retrieved ", ToString(Get(ran.result, "chunks", 0)),
                       " relevant chunks">>,
         metadata |-> Meta("", <<ToString(doc_count)>>)]

\* lines 436-471: what the Retrieval node does with the store holding doc_count
\* documents: the new context, the node's result, whether the component was
\* run, and the entry logged.
RetrievalNode(settings, payload, context, doc_count, outcome) ==
    LET kb_enabled == Get(settings, "enabled", TRUE)
        kb_payload == Merge(payload,
                            [query |-> Get(context, "query", << >>),
                             top_k |-> Get(settings, "topK", 3),
                             threshold |-> Get(settings, "threshold", 70)])
        ran == KnowledgeBaseRun(kb_payload, context, outcome)
        skip_reason == IF ~kb_enabled THEN "disabled" ELSE "no documents uploaded"
    IN  IF kb_enabled /\ doc_count > 0
        THEN [context |-> ran.context, result |-> ran.result, searched |-> 1,
              level |-> "INFO",
              message |-> <<"Retrieved ", ToString(Get(ran.result, "chunks", 0)),
                            " relevant chunks">>,
              metadata |-> Meta("", <<ToString(doc_count)>>)]
        ELSE [context |-> Put(context, "context", << >>),
              result |-> [context |-> << >>, chunks |-> 0, skipped |-> skip_reason],
              searched |-> 0,
              level |-> "WARNING",
              message |-> <<"Knowledge base skipped: ", skip_reason>>,
              metadata |-> Meta("", << >>)]

\* lines 436-471 and 514-523: the Retrieval node is run and logged completed
ExecRetrievalNode(c) ==
    /\ Running(c, "knowledge_base")
    /\ \E doc_count \in 0..MaxDocuments, outcome \in SearchOutcomes :
          LET node == RetrievalNode(Settings(exec[c]), exec[c].payload, exec[c].context,
                                    doc_count, outcome)
          IN  NodeCompleted(c, Log(svc, exec[c].execution_id, node.level, node.message,
                                   NodeId(exec[c]), NodeTypeLabel(exec[c]), node.metadata),
                            node.context, node.result, << >>, node.searched)
    /\ UNCHANGED <<subs, svcRaised, sortVars, genVars>>

\* lines 473-500: the Generation node
ExecGenerationNode(c) ==
    /\ Running(c, "llm_engine")
    /\ LET settings == Settings(exec[c])
           llm_payload ==
               Merge(exec[c].payload,
                     [query |-> Get(exec[c].context, "query", << >>),
                      context |-> Get(exec[c].context, "context", << >>),
                      provider |-> Get(settings, "provider", "google"),
                      model |-> Get(settings, "model", ""),
                      systemPrompt |-> Or(Get(settings, "systemPrompt", << >>),
                                          Get(exec[c].payload, "prompt", << >>)),
                      temperature |-> Get(settings, "temperature", 70),
                      maxTokens |-> Get(settings, "maxTokens", 4096)])
           resolved == ResolveProviderModel(llm_payload.provider, llm_payload.model, llm)
           primary == IF resolved.raised THEN OPENAI ELSE resolved.provider
       IN  \E sdkPrimary \in SdkOutcomes(primary),
              sdkFallback \in SdkOutcomes(FallbackProvider(primary)),
              search_results \in WebSearchResults :
              LET ran == LLMEngineRun(llm_payload, exec[c].context, llm,
                                      sdkPrimary, sdkFallback, search_results)
              IN  NodeCompleted(c, Log(svc, exec[c].execution_id, "INFO",
                                       <<"LLM response generated">>, NodeId(exec[c]),
                                       NodeTypeLabel(exec[c]),
                                       Meta("", Get(ran.context, "answer", << >>))),
                                ran.context, ran.result, ran.generated, 0)
    /\ UNCHANGED <<subs, svcRaised, sortVars, genVars>>

\* lines 502-512: the Output node
ExecOutputNode(c) ==
    /\ Running(c, "output")
    /\ NodeCompleted(c, Log(svc, exec[c].execution_id, "INFO", <<"Output formatted">>,
                            NodeId(exec[c]), NodeTypeLabel(exec[c]), Meta("", << >>)),
                     exec[c].context, OutputRun(exec[c].payload, exec[c].context), << >>, 0)
    /\ UNCHANGED <<subs, svcRaised, sortVars, genVars>>

\* execute, lines 293-350: every node of the order has run
ExecFinish(c) ==
    /\ exec[c].pc = "dispatch"
    /\ ~Dispatching(c)
    /\ svc' = CompleteExecution(svc, exec[c].execution_id, "completed", << >>)
    /\ exec' = [exec EXCEPT
                  ![c].pc = "returned",
                  ![c].result = SuccessResult(exec[c],
                      AssembleAnswer(exec[c].info.has_llm, exec[c].info.has_kb,
                                     exec[c].context, exec[c].query))]
    /\ UNCHANGED <<subs, svcRaised, sortVars, genVars>>

\* execute, lines 352-391: a node raised
ExecFail(c) ==
    /\ exec[c].pc = "failing"
    /\ svc' = CompleteExecution(
                  Log(svc, exec[c].execution_id, "ERROR", ExecutionFailed(exec[c].raised),
                      NoNode, "", Meta("", exec[c].raised)),
                  exec[c].execution_id, "failed", exec[c].raised)
    /\ exec' = [exec EXCEPT ![c].pc = "returned", ![c].result = FailureResult(exec[c])]
    /\ UNCHANGED <<subs, svcRaised, sortVars, genVars>>

NextExec ==
    \E c \in ExecutionIds :
        \/ ExecStart(c)
        \/ ExecNodeStart(c)
        \/ ExecInputNode(c)
        \/ ExecRetrievalNode(c)
        \/ ExecGenerationNode(c)
        \/ ExecOutputNode(c)
        \/ ExecFinish(c)
        \/ ExecFail(c)

SpecExec == InitExec /\ [][NextExec]_vars

(***************************************************************************)
(* C2, C3, C6, C7.                                                         *)
(***************************************************************************)
Returned(c) == exec[c].pc = "returned"

ResultStatus(c) == exec[c].result["_execution"].status

RecordStatus(c) == svc.executions[exec[c].execution_id].status

\* A node of the definition is of a type the alias table maps to this component.
HasComponent(c, component_type) ==
    \E i \in DOMAIN exec[c].definition.nodes :
        /\ exec[c].definition.nodes[i].type \in DOMAIN NODE_TYPE_MAP
        /\ NODE_TYPE_MAP[exec[c].definition.nodes[i].type] = component_type

\* The last generate call made by a Generation node of call c raised.
LastGenerationFailed(c) ==
    exec[c].generated # << >> /\ Last(exec[c].generated).pc = "raised"

\* C2 as stated: no exception leaves execute, and when a node has raised the
\* result is the structured failure (error = true, the failure answer, status
\* "failed").
C2_Original ==
    \A c \in ExecutionIds :
        /\ exec[c].pc # "raised"
        /\ (Returned(c) /\ exec[c].raised # << >>) =>
              /\ Get(exec[c].result, "error", FALSE) = TRUE
              /\ exec[c].result["answer"] = ExecutionFailed(exec[c].raised)
              /\ ResultStatus(c) = "failed"

C6_AnswerAssembly ==
    \A c \in ExecutionIds :
        (Returned(c) /\ ResultStatus(c) = "completed") =>
            LET answer == exec[c].result["answer"]
                retrieved == Get(exec[c].context, "context", << >>)
            IN  IF HasComponent(c, "llm_engine")
                THEN answer = Get(exec[c].context, "answer", << >>)
                ELSE IF HasComponent(c, "knowledge_base")
                THEN /\ retrieved # << >> => answer = RetrievedBanner \o retrieved
                     /\ retrieved = << >> => answer = NoRelevantDocuments
                ELSE answer = <<"Query received: ">> \o exec[c].result["query"] \o NoLLMGuidance

\* A definition with a Retrieval and a Generation node: documents were retrieved,
\* and the answer returned is the generated text, not the retrieved context.
C6_Witness ==
    \E c \in ExecutionIds :
        /\ Returned(c)
        /\ HasComponent(c, "llm_engine") /\ HasComponent(c, "knowledge_base")
        /\ Get(exec[c].context, "context", << >>) # << >>
        /\ exec[c].generated # << >> /\ Last(exec[c].generated).pc = "returned"
        /\ exec[c].result["answer"] = Last(exec[c].generated).result

\* The definition of call c has neither a Generation nor a Retrieval node.
Degenerate(c) == ~HasComponent(c, "llm_engine") /\ ~HasComponent(c, "knowledge_base")

\* The query setting of node i of the definition of call c.
QuerySetting(c, i) == Get(exec[c].definition.nodes[i].data, "query", << >>)

\* The Input nodes of the definition of call c that carry a query.
QueryNodes(c) ==
    {i \in DOMAIN exec[c].definition.nodes :
        /\ exec[c].definition.nodes[i].type \in DOMAIN NODE_TYPE_MAP
        /\ NODE_TYPE_MAP[exec[c].definition.nodes[i].type] = "user_query"
        /\ QuerySetting(c, i) # << >>}

\* The payload query and every query setting of the definition are texts.
TextQueries(c) ==
    /\ IsStr(Get(exec[c].payload, "query", << >>))
    /\ \A i \in DOMAIN exec[c].definition.nodes : IsStr(QuerySetting(c, i))

\* The positions in the execution order of the Input nodes that carry a query.
PlacedQueryNodes(c) ==
    {j \in DOMAIN exec[c].info.execution_order :
        exec[c].definition.nodes[exec[c].info.execution_order[j]].id \in QueryNodes(c)}

\* The query setting of the first Input node in execution order that carries
\* one; "" when the order has no such node.
FirstPlacedQuery(c) ==
    IF PlacedQueryNodes(c) = {} THEN << >>
    ELSE QuerySetting(c, exec[c].info.execution_order[
             CHOOSE j \in PlacedQueryNodes(c) : \A k \in PlacedQueryNodes(c) : j <= k])

Calls == 1..NumCalls

\* The service before any call, able to hold one execution per call.
IsoSvc == [NoSvc EXCEPT !.subscribers = [e \in Calls \cup {UnknownExecution} |-> << >>]]

\* The definitions the concurrent calls are drawn from: an Input node with a
\* text, an Input node whose query is a number (the node raises), an Output node.
IsoDefinitions ==
    {[nodes |-> <<[id |-> 1, type |-> k.type, data |-> k.data]>>, edges |-> << >>] :
        k \in {[type |-> "input", data |-> [query |-> <<"node query">>]],
               [type |-> "userQuery", data |-> [query |-> Number42]],
               [type |-> "output", data |-> << >>]}}

InitIso ==
    /\ exec \in [Calls -> {NewCall(d, [query |-> <<"hi">>]) : d \in IsoDefinitions}]
    /\ llm = NoLLM
    /\ svc = IsoSvc
    /\ subs = NoSubs
    /\ svcRaised = << >>
    /\ gen = NoGen
    /\ definition = EmptyDefinition
    /\ kahn = NoKahn
    /\ sortPc = "idle"

NextIso ==
    \/ \E c \in Calls :
          \/ ExecStart(c)
          \/ ExecNodeStart(c)
          \/ ExecInputNode(c)
          \/ ExecOutputNode(c)
          \/ ExecFinish(c)
          \/ ExecFail(c)
    \/ \E q \in Queues :
          \/ \E e \in DOMAIN svc.executions : Subscribe(q, e)
          \/ SubReceive(q)

SpecIso == InitIso /\ [][NextIso]_vars

(***************************************************************************)
(* C11.                                                                    *)
(***************************************************************************)
\* Call c has obtained its execution_id.
Started(c) == exec[c].execution_id # 0

\* The queues of the subscribers of execution e (registered or not any more).
QueuesOf(e) == {q \in Queues : subs[q].pc # "new" /\ subs[q].execution_id = e}

\* C11: concurrent execute calls hold distinct execution ids; a step of one call
\* leaves every other execution's record (logs, completed_nodes, status) and the
\* queues of every other execution's subscribers as they were; the entries of a
\* record, and the entries queued for or received by a subscriber, all carry the
\* id of that execution.
C11_Isolation ==
    /\ [](\A c1, c2 \in Calls :
            (c1 # c2 /\ Started(c1) /\ Started(c2)) =>
                exec[c1].execution_id # exec[c2].execution_id)
    /\ [][\A c \in Calls :
            exec'[c] # exec[c] =>
                \A e \in DOMAIN svc.executions :
                    e # exec'[c].execution_id =>
                        /\ svc'.executions[e] = svc.executions[e]
                        /\ \A q \in QueuesOf(e) : svc'.queues[q] = svc.queues[q]]_vars
    /\ [](\A e \in DOMAIN svc.executions :
            /\ \A i \in DOMAIN svc.executions[e].logs :
                  svc.executions[e].logs[i].execution_id = e
            /\ \A q \in QueuesOf(e) :
                  /\ \A i \in DOMAIN subs[q].received : subs[q].received[i].execution_id = e
                  /\ \A i \in DOMAIN svc.queues[q] :
                        svc.queues[q][i] # EndOfStream => svc.queues[q][i].execution_id = e)

\* Two calls ran interleaved, one failed and one completed, and a subscriber of
\* each has received that call's whole log and nothing else.
C11_Witness ==
    \E c1, c2 \in Calls, q1, q2 \in Queues :
        /\ c1 # c2 /\ q1 # q2
        /\ exec[c1].pc = "returned" /\ exec[c2].pc = "returned"
        /\ svc.executions[exec[c1].execution_id].status = "failed"
        /\ svc.executions[exec[c2].execution_id].status = "completed"
        /\ subs[q1].execution_id = exec[c1].execution_id
        /\ subs[q2].execution_id = exec[c2].execution_id
        /\ subs[q1].received = svc.executions[exec[c1].execution_id].logs
        /\ subs[q2].received = svc.executions[exec[c2].execution_id].logs
        /\ subs[q1].backlog = 1 /\ subs[q2].backlog = 1

(***************************************************************************)
(* C12.                                                                    *)
(***************************************************************************)
\* C12 as stated: once the status of an execution is terminal, no step changes
\* its status, ended_at or error, or appends an entry to its log.
C12_Original ==
    [][\A e \in DOMAIN svc.executions :
          Terminal(svc.executions[e].status) =>
              /\ svc'.executions[e].status = svc.executions[e].status
              /\ svc'.executions[e].ended_at = svc.executions[e].ended_at
              /\ svc'.executions[e].error = svc.executions[e].error
              /\ svc'.executions[e].logs = svc.executions[e].logs]_vars

(***************************************************************************)
(* C13.                                                                    *)
(***************************************************************************)
\* C13 as stated: when an execute call that obtained an execution_id has ended,
\* by returning or by an exception, the record's status is Completed or Failed
\* (complete_execution has run: the record has its completion entry) and, if a
\* result was returned, its _execution.status is the record's status.
C13_Original ==
    \A c \in ExecutionIds :
        (Started(c) /\ exec[c].pc \in {"returned", "raised"}) =>
            /\ RecordStatus(c) \in {"completed", "failed"}
            /\ Last(svc.executions[exec[c].execution_id].logs).metadata.event =
                  "execution_completed"
            /\ Returned(c) => ResultStatus(c) = RecordStatus(c)

(***************************************************************************)
(* C14: log, log_node_start, log_node_complete and log_node_error on an    *)
(* execution_id the service does not know raise "Execution ... not found"  *)
(* and change nothing: no record is created, no entry is appended to any   *)
(* record and no subscriber queue receives anything, even when a           *)
(* subscriber is registered under that id.                                 *)
(***************************************************************************)
C14_UnknownIdChangesNothing ==
    /\ ~Known(svc, UnknownExecution)
    /\ \A call \in LogCalls(svc, UnknownExecution) :
          /\ call.raised = ExecutionNotFound(UnknownExecution)
          /\ call.svc = svc
          /\ DOMAIN call.svc.executions = DOMAIN svc.executions
          /\ \A e \in DOMAIN svc.executions :
                call.svc.executions[e].logs = svc.executions[e].logs
          /\ call.svc.queues = svc.queues

\* The call was made while a record existed and a subscriber was registered
\* under the unknown id.
C14_Witness ==
    /\ svcRaised = ExecutionNotFound(UnknownExecution)
    /\ svc.executions # << >>
    /\ SubscribersOf(svc, UnknownExecution) # << >>

(***************************************************************************)
(* C15: every log entry's progress is completed_nodes / total_nodes * 100  *)
(* at the time it is appended, with the node just completed counted in a   *)
(* node_completed entry, and is 0 when total_nodes is 0.                   *)
(***************************************************************************)
\* The k-th node_completed entry of a log is built after k increments.
CompletedBefore(logs, n) ==
    Cardinality({k \in 1..n : logs[k].metadata.event = "node_completed"})

C15_Original ==
    \A e \in DOMAIN svc.executions :
        LET logs == svc.executions[e].logs
        IN  \A n \in 1..Len(logs) :
                /\ logs[n].step = CompletedBefore(logs, n)
                /\ logs[n].progress # << >>
                /\ IF logs[n].total_steps = 0
                   THEN logs[n].progress[1] = 0
                   ELSE logs[n].progress = <<logs[n].step * 100, logs[n].total_steps>>

(***************************************************************************)
(* C16: for a fixed definition the execution order is the Kahn order whose *)
(* work queue is seeded with the zero-in-degree recognized nodes in the    *)
(* order the definition's node list declares them, processed FIFO.         *)
(***************************************************************************)
RECURSIVE DeclaredOrder(_)
\* The recognized node ids in the order the node list first declares them.
DeclaredOrder(nodes) ==
    IF nodes = << >> THEN << >>
    ELSE LET before == DeclaredOrder(SubSeq(nodes, 1, Len(nodes) - 1))
             node == Last(nodes)
         IN  IF Recognized(node) /\ node.id \notin Range(before)
             THEN Append(before, node.id)
             ELSE before

C16_Original ==
    sortPc = "done" =>
        kahn.result = TopologicalSort(definition.edges, ParseNodeTypes(definition.nodes),
                                      DeclaredOrder(definition.nodes))

(***************************************************************************)
(* C17: for every definition, cyclic graphs, self-loops and duplicate      *)
(* edges included, the sort terminates; the returned order holds no node   *)
(* twice and holds exactly the recognized nodes that are not on a cycle of *)
(* retained edges and have no ancestor on one; for an acyclic retained     *)
(* graph it is a permutation of the recognized nodes.                      *)
(***************************************************************************)
\* Retained predecessors of a node.
Preds(id) == {e.source : e \in {r \in SortRetained : r.target = id}}

RECURSIVE AncestorsWithin(_, _)
\* The nodes from which id is reached by at least one retained edge, found in
\* at most `fuel` rounds.
AncestorsWithin(ids, fuel) ==
    LET more == ids \cup UNION {Preds(x) : x \in ids}
    IN  IF fuel = 0 \/ more = ids THEN ids ELSE AncestorsWithin(more, fuel - 1)

Ancestors(id) == AncestorsWithin(Preds(id), Cardinality(SortValid))

OnCycle(id) == id \in Ancestors(id)

BehindCycle(id) == \E a \in Ancestors(id) : OnCycle(a)

NoNodeTwice(order) == \A i, j \in DOMAIN order : order[i] = order[j] => i = j

RECURSIVE ReachedFreeOfCycles(_, _)
\* The node can be reached along some path that meets no cycle: it is not on a
\* cycle, and it has no predecessor or one that is itself so reached.
ReachedFreeOfCycles(id, fuel) ==
    /\ ~OnCycle(id)
    /\ \/ Preds(id) = {}
       \/ fuel > 0 /\ \E p \in Preds(id) : ReachedFreeOfCycles(p, fuel - 1)

\* C17 as stated, reading "reachable only through a cycle" as: every path to
\* the node passes through a node on a cycle.
C17_Original ==
    sortPc = "done" =>
        /\ NoNodeTwice(kahn.result)
        /\ Range(kahn.result) =
              {id \in SortValid : ReachedFreeOfCycles(id, Cardinality(SortValid))}

C17_TerminatesAndCovers ==
    /\ <>(sortPc = "done")
    /\ [](sortPc = "done" =>
            /\ NoNodeTwice(kahn.result)
            /\ Range(kahn.result) =
                  {id \in SortValid : ~OnCycle(id) /\ ~BehindCycle(id)}
            /\ (\A id \in SortValid : ~OnCycle(id)) =>
                  Range(kahn.result) = SortValid /\ Len(kahn.result) = Cardinality(SortValid))

\* A finished sort of a graph with a duplicated edge, a node on a cycle and a
\* node behind it, that still placed a node.
C17_Witness ==
    /\ sortPc = "done"
    /\ kahn.result # << >>
    /\ \E i, j \in DOMAIN definition.edges :
          i # j /\ definition.edges[i] = definition.edges[j]
             /\ definition.edges[i] \in SortRetained
    /\ \E a, b \in SortValid : OnCycle(a) /\ ~OnCycle(b) /\ BehindCycle(b)

(***************************************************************************)
(* C18: a node whose type the alias table does not have is absent from     *)
(* node_types and execution_order and is never dispatched; an edge that    *)
(* touches such a node adds nothing to in-degrees or ordering: the parsed  *)
(* workflow is that of the definition without these nodes and edges; the   *)
(* scheduled recognized nodes are all executed by a completed run, and a   *)
(* run fails only through a recognized node or the query.                  *)
(***************************************************************************)
UnknownIds(defn) == {n.id : n \in {m \in Range(defn.nodes) : ~Recognized(m)}}

\* The definition without its unknown nodes and the edges touching them.
WithoutUnknown(defn) ==
    [nodes |-> FilterSeq(defn.nodes, {n \in Range(defn.nodes) : Recognized(n)}),
     edges |-> FilterSeq(defn.edges,
                  {e \in Range(defn.edges) :
                      e.source \notin UnknownIds(defn) /\ e.target \notin UnknownIds(defn)})]

C18_UnknownTypesOmitted ==
    \A c \in ExecutionIds :
        Started(c) =>
            LET defn == exec[c].definition
                info == exec[c].info
                logs == svc.executions[exec[c].execution_id].logs
            IN  /\ UnknownIds(defn) \cap DOMAIN info.node_types = {}
                /\ UnknownIds(defn) \cap Range(info.execution_order) = {}
                /\ \A n \in DOMAIN logs : logs[n].node_id \notin UnknownIds(defn)
                /\ \A key_order \in Perms(DOMAIN info.node_types) :
                      /\ ParseWorkflow(defn, key_order) =
                            ParseWorkflow(WithoutUnknown(defn), key_order)
                      /\ KahnBuild(defn.edges, info.node_types, key_order).in_degree =
                            KahnBuild(WithoutUnknown(defn).edges, info.node_types,
                                      key_order).in_degree
                /\ (Returned(c) /\ ResultStatus(c) = "completed") =>
                      Len(exec[c].dispatched) = Len(info.execution_order)
                /\ exec[c].raised # << >> =>
                      exec[c].raised = NotSubscriptable \/ exec[c].dispatched # << >>

\* A completed run of a definition with an unknown node wired in front of a
\* recognized node that was executed.
C18_Witness ==
    \E c \in ExecutionIds :
        /\ Returned(c) /\ ResultStatus(c) = "completed"
        /\ exec[c].dispatched # << >>
        /\ \E e \in Range(exec[c].definition.edges) :
              /\ e.source \in UnknownIds(exec[c].definition)
              /\ e.target \in Range(exec[c].info.execution_order)

(***************************************************************************)
(* C19: a non-empty payload.query is the active query of the whole run:    *)
(* the context.query read by every Retrieval and Generation node and the   *)
(* query of the result equal it, whatever query an Input node carries;     *)
(* with an empty payload.query both equal the setting of the first Input   *)
(* node in execution order.  (Stated for text queries.)                    *)
(***************************************************************************)
ActiveQuery(c) ==
    IF Get(exec[c].payload, "query", << >>) # << >>
    THEN exec[c].payload.query
    ELSE FirstPlacedQuery(c)

C19_Original ==
    \A c \in ExecutionIds :
        TextQueries(c) =>
            /\ (Running(c, "knowledge_base") \/ Running(c, "llm_engine")) =>
                  Get(exec[c].context, "query", << >>) = ActiveQuery(c)
            /\ (Returned(c) /\ ResultStatus(c) = "completed") =>
                  exec[c].result["query"] = ActiveQuery(c)

(***************************************************************************)
(* C20: a Retrieval node that is disabled in its settings, or that finds   *)
(* the vector store empty, runs neither embedding nor similarity search,   *)
(* sets context.context to "", yields chunk count 0 and the skip reason    *)
(* "disabled" or "no documents uploaded", logs "Knowledge base skipped:    *)
(* <reason>", is logged completed with completed_nodes incremented, and    *)
(* the run goes on to the next node without an exception.                  *)
(***************************************************************************)
SkipReason(settings) ==
    IF Get(settings, "enabled", TRUE) THEN "no documents uploaded" ELSE "disabled"

\* What the node does in the skip case, for every store content and search outcome.
SkipDecision(c) ==
    \A doc_count \in 0..MaxDocuments, outcome \in SearchOutcomes :
        (~Get(Settings(exec[c]), "enabled", TRUE) \/ doc_count = 0) =>
            LET node == RetrievalNode(Settings(exec[c]), exec[c].payload,
                                      exec[c].context, doc_count, outcome)
            IN  /\ node.searched = 0
                /\ Get(node.context, "context", <<"unset">>) = << >>
                /\ node.result.chunks = 0
                /\ node.result.skipped = SkipReason(Settings(exec[c]))
                /\ node.message =
                      <<"Knowledge base skipped: ", SkipReason(Settings(exec[c]))>>

\* The step of call c that runs a Retrieval node and logs a skip.
SkipStep(c) ==
    LET e == exec[c].execution_id
        before == svc.executions[e]
        after == svc'.executions[e]
    IN  /\ Len(after.logs) = Len(before.logs) + 2
        /\ after.logs[Len(before.logs) + 1].level = "WARNING"
        /\ after.logs[Len(before.logs) + 1].message =
              <<"Knowledge base skipped: ", SkipReason(Settings(exec[c]))>>
        /\ after.logs[Len(before.logs) + 1].node_id = NodeId(exec[c])
        /\ after.logs[Len(before.logs) + 2].metadata.event = "node_completed"
        /\ after.logs[Len(before.logs) + 2].node_id = NodeId(exec[c])
        /\ after.logs[Len(before.logs) + 2].step = before.completed_nodes + 1
        /\ after.completed_nodes = before.completed_nodes + 1
        /\ exec'[c].searched = exec[c].searched
        /\ Get(exec'[c].context, "context", <<"unset">>) = << >>
        /\ exec'[c].raised = << >>
        /\ exec'[c].pc = "dispatch"
        /\ exec'[c].i = exec[c].i + 1

\* The step of call c that runs a Retrieval node and searched.
SearchStep(c) ==
    /\ exec'[c].searched = exec[c].searched + 1
    /\ Get(Settings(exec[c]), "enabled", TRUE)

C20_RetrievalSkip ==
    /\ [](\A c \in ExecutionIds : Running(c, "knowledge_base") => SkipDecision(c))
    /\ [][\A c \in ExecutionIds :
            (Running(c, "knowledge_base") /\ exec'[c] # exec[c]) =>
                /\ SkipStep(c) \/ SearchStep(c)
                /\ ~Get(Settings(exec[c]), "enabled", TRUE) => SkipStep(c)]_vars
    /\ [](\A c \in ExecutionIds :
            exec[c].pc = "failing" => Last(exec[c].dispatched) # "knowledge_base")

\* A completed run whose record shows both skip reasons, with no search made.
C20_Witness ==
    \E c \in ExecutionIds :
        /\ Returned(c) /\ ResultStatus(c) = "completed"
        /\ exec[c].searched = 0
        /\ \E m, n \in DOMAIN svc.executions[exec[c].execution_id].logs :
              LET logs == svc.executions[exec[c].execution_id].logs
              IN  /\ logs[m].message = <<"Knowledge base skipped: ", "disabled">>
                  /\ logs[n].message = <<"Knowledge base skipped: ", "no documents uploaded">>

(***************************************************************************)
(* C21: an enabled Retrieval node run with at least one stored document    *)
(* leaves context.context non-empty whenever similarity search returned at *)
(* least one result, above or below the threshold; when no result reaches  *)
(* the threshold the first min(topK, number of results) raw results are    *)
(* used.                                                                   *)
(***************************************************************************)
\* The results the node would use: those at or above the threshold, else the
\* first min(topK, number of results) raw results.
UsedResults(settings, results) ==
    LET above == SelectSeq(results, LAMBDA r : r.score >= Get(settings, "threshold", 70))
    IN  IF above # << >> THEN above
        ELSE SubSeq(results, 1, Min(Get(settings, "topK", 3), Len(results)))

C21_Original ==
    \A c \in ExecutionIds :
        Running(c, "knowledge_base") =>
            \A doc_count \in 1..MaxDocuments, outcome \in SearchOutcomes :
                (/\ Get(Settings(exec[c]), "enabled", TRUE)
                 /\ Truthy(Get(exec[c].context, "query", << >>))
                 /\ ~outcome.raised
                 /\ outcome.results # << >>) =>
                    LET node == RetrievalNode(Settings(exec[c]), exec[c].payload,
                                              exec[c].context, doc_count, outcome)
                    IN  /\ node.searched = 1
                        /\ Get(node.context, "context", << >>) # << >>
                        /\ node.result.chunks =
                              Len(UsedResults(Settings(exec[c]), outcome.results))

(***************************************************************************)
(* C22: when the generate call of a Generation node fails, the node does   *)
(* not raise, the failure text is written to context.answer, the node is   *)
(* marked failed in the execution log (an error-level node_error entry and *)
(* no node_completed entry), and the run goes on to the next node.         *)
(***************************************************************************)
\* The entries appended to the record of call c by the step.
NewEntries(c) ==
    LET e == exec[c].execution_id
    IN  SubSeq(svc'.executions[e].logs, Len(svc.executions[e].logs) + 1,
               Len(svc'.executions[e].logs))

\* The step runs a Generation node of call c whose generate call fails.
GenerationFails(c) ==
    /\ Running(c, "llm_engine")
    /\ Len(exec'[c].generated) = Len(exec[c].generated) + 1
    /\ Last(exec'[c].generated).pc = "raised"

C22_Original ==
    [][\A c \in ExecutionIds :
        GenerationFails(c) =>
            /\ exec'[c].raised = << >>
            /\ exec'[c].pc = "dispatch"
            /\ exec'[c].i = exec[c].i + 1
            /\ Get(exec'[c].context, "answer", << >>) =
                  FailedToGenerate(Last(exec'[c].generated).result)
            /\ \E n \in DOMAIN NewEntries(c) :
                  /\ NewEntries(c)[n].level = "ERROR"
                  /\ NewEntries(c)[n].metadata.event = "node_error"
                  /\ NewEntries(c)[n].node_id = NodeId(exec[c])
            /\ \A n \in DOMAIN NewEntries(c) :
                  NewEntries(c)[n].metadata.event # "node_completed"]_vars

(***************************************************************************)
(* C23: when generate is given a provider explicitly, its primary attempt  *)
(* goes to that provider whatever model name accompanies it; when neither  *)
(* provider nor model is given the primary is the first configured         *)
(* provider, and with none configured the call fails with the              *)
(* configuration error.                                                    *)
(***************************************************************************)
C23_Original ==
    /\ (gen.calls # << >> /\ gen.args.provider \in {OPENAI, GEMINI}) =>
          gen.calls[1].provider = gen.args.provider
    /\ (gen.calls # << >> /\ gen.args.provider = "" /\ gen.args.model = "") =>
          gen.calls[1].provider = (IF llm.openai_client THEN OPENAI ELSE GEMINI)
    /\ (/\ gen.pc \notin {"idle", "resolve"}
        /\ gen.args.provider = "" /\ gen.args.model = ""
        /\ ~llm.openai_client /\ ~llm.gemini_configured) =>
          gen.pc = "raised" /\ gen.result = NoneConfiguredError

(***************************************************************************)
(* The streaming endpoint stream_execution_logs over the log service       *)
(* (specification SpecStream).  Each client is one event_generator that    *)
(* iterates subscribe; it is suspended at every yield until the client     *)
(* takes the next event, so service calls interleave with it freely.  The  *)
(* subscriber record of a client holds, in received, the entries sent as   *)
(* "log" events; pc "emitted" is the suspension after a "log" or           *)
(* "heartbeat" event, pc "complete" follows the "complete" event.          *)
(***************************************************************************)
\* lines 56-58 and the first iteration of line 62: 404 for an unknown execution,
\* else the subscription is opened
StreamExecutionLogs(q, e) ==
    /\ Known(svc, e)
    /\ Subscribe(q, e)

\* lines 62-73 with subscribe lines 295-298: the next item; an entry is sent as
\* a "log" event, the sentinel ends the iteration without any event
EventGeneratorLog(q) ==
    /\ subs[q].pc = "waiting"
    /\ svc.queues[q] # << >>
    /\ LET item == Head(svc.queues[q])
           s1 == [svc EXCEPT !.queues[q] = Tail(@)]
       IN  IF item = EndOfStream
           THEN /\ svc' = Deregister(s1, q, subs[q].execution_id)
                /\ subs' = [subs EXCEPT ![q].pc = "done"]
           ELSE /\ svc' = s1
                /\ subs' = [subs EXCEPT ![q].received = Append(@, item),
                                        ![q].pc = "emitted"]
    /\ UNCHANGED <<svcRaised, sortVars, genVars, execVars>>

\* lines 63-67 with subscribe lines 299-309: a "heartbeat" event on idle
EventGeneratorHeartbeat(q) ==
    /\ subs[q].pc = "waiting"
    /\ svc.queues[q] = << >>
    /\ subs[q].heartbeats < MaxHeartbeats
    /\ subs' = [subs EXCEPT ![q].heartbeats = @ + 1, ![q].pc = "emitted"]
    /\ UNCHANGED <<svc, svcRaised, sortVars, genVars, execVars>>

\* lines 75-92: after each event the status is read; a terminal status sends
\* the "complete" event and leaves the loop, which closes subscribe
EventGeneratorCheck(q) ==
    /\ subs[q].pc = "emitted"
    /\ IF Terminal(svc.executions[subs[q].execution_id].status)
       THEN /\ svc' = Deregister(svc, q, subs[q].execution_id)
            /\ subs' = [subs EXCEPT ![q].pc = "complete"]
       ELSE /\ svc' = svc
            /\ subs' = [subs EXCEPT ![q].pc = "waiting"]
    /\ UNCHANGED <<svcRaised, sortVars, genVars, execVars>>

\* lines 94-95: the client goes away while the generator is suspended
EventGeneratorCancelled(q) ==
    /\ subs[q].pc \in {"waiting", "emitted"}
    /\ svc' = Deregister(svc, q, subs[q].execution_id)
    /\ subs' = [subs EXCEPT ![q].pc = "done"]
    /\ UNCHANGED <<svcRaised, sortVars, genVars, execVars>>

NextStream ==
    \/ SvcStart
    \/ \E e \in ExecutionIds : SvcLog(e) \/ SvcLogNodeComplete(e) \/ SvcComplete(e)
    \/ \E q \in Queues :
          \/ \E e \in ExecutionIds : StreamExecutionLogs(q, e)
          \/ EventGeneratorLog(q)
          \/ EventGeneratorHeartbeat(q)
          \/ EventGeneratorCheck(q)
          \/ EventGeneratorCancelled(q)

SpecStream == InitLog /\ [][NextStream]_vars

(***************************************************************************)
(* C24: stream_execution_logs sends one "log" event per log entry of the   *)
(* execution in append order, and the "complete" event only after all of   *)
(* the execution's log entries have been sent, whenever the client         *)
(* connects and however slowly it reads.                                   *)
(***************************************************************************)
C24_Original ==
    [][\A q \in Queues :
        /\ subs'[q].pc # "new" =>
              IsPrefix(subs'[q].received, GetExecutionLogs(svc', subs'[q].execution_id))
        /\ (subs[q].pc # "complete" /\ subs'[q].pc = "complete") =>
              subs[q].received = GetExecutionLogs(svc, subs[q].execution_id)]_vars

(***************************************************************************)
(* C25: within one execute call the nodes are dispatched one at a time in  *)
(* execution_order; each dispatched node gets exactly one node_started     *)
(* entry and then exactly one node_completed or node_error entry, the next *)
(* node's start never preceding the previous node's completion; after a    *)
(* node_error entry no node is started and only the workflow-failed entry  *)
(* and the completion entry with status failed and the error message       *)
(* follow.                                                                 *)
(***************************************************************************)
NodeEvents == {"node_started", "node_completed", "node_error"}

RecordOf(c) == svc.executions[exec[c].execution_id]

\* The node entries of the record of call c, in append order.
NodeEntries(c) == SelectSeq(RecordOf(c).logs, LAMBDA entry : entry.metadata.event \in NodeEvents)

\* The entries of the record of call c that follow its node_error entry.
AfterNodeError(c) ==
    LET logs == RecordOf(c).logs
        at == CHOOSE n \in DOMAIN logs : logs[n].metadata.event = "node_error"
    IN  SubSeq(logs, at + 1, Len(logs))

C25_NodeProtocol ==
    \A c \in ExecutionIds :
        Started(c) =>
            LET entries == NodeEntries(c)
                order == exec[c].info.execution_order
            IN  /\ \A k \in DOMAIN entries :
                      IF k % 2 = 1
                      THEN /\ entries[k].metadata.event = "node_started"
                           /\ (k + 1) \div 2 <= Len(order)
                           /\ entries[k].node_id = order[(k + 1) \div 2]
                      ELSE /\ entries[k].metadata.event \in {"node_completed", "node_error"}
                           /\ entries[k].node_id = entries[k - 1].node_id
                /\ Len(entries) \in {2 * Len(exec[c].dispatched) - 1,
                                     2 * Len(exec[c].dispatched)}
                /\ Len(entries) % 2 = 1 <=> exec[c].pc = "run"
                /\ \A k \in DOMAIN entries :
                      entries[k].metadata.event = "node_error" =>
                          /\ k = Len(entries)
                          /\ entries[k].level = "ERROR"
                          /\ exec[c].pc \in {"failing", "returned"}
                          /\ \A n \in DOMAIN AfterNodeError(c) :
                                   /\ n <= 2
                                   /\ AfterNodeError(c)[n].level = "ERROR"
                                   /\ AfterNodeError(c)[n].node_id = NoNode
                                   /\ AfterNodeError(c)[n].message =
                                         (IF n = 1 THEN ExecutionFailed(exec[c].raised)
                                          ELSE <<"Workflow execution ", "failed", ": ">>
                                                  \o exec[c].raised)
                                   /\ n = 2 => AfterNodeError(c)[n].metadata.event =
                                                  "execution_completed"
                          /\ Returned(c) =>
                                /\ Len(AfterNodeError(c)) = 2
                                /\ RecordOf(c).status = "failed"
                                /\ RecordOf(c).error = exec[c].raised
                                /\ entries[k].metadata.detail = exec[c].raised

\* A failed run: the first node completed, the second was started and raised.
C25_Witness ==
    \E c \in ExecutionIds :
        /\ Returned(c) /\ ResultStatus(c) = "failed"
        /\ Len(NodeEntries(c)) = 4
        /\ NodeEntries(c)[2].metadata.event = "node_completed"
        /\ NodeEntries(c)[4].metadata.event = "node_error"

(***************************************************************************)
(* C26: when a subscriber's queue stays empty for the wait bound,          *)
(* subscribe yields a heartbeat and the subscriber stays registered with   *)
(* the generator open; the heartbeat is not appended to the execution's    *)
(* log and is not sent to any subscriber's queue, and real entries that    *)
(* come afterwards are delivered in order with none dropped.               *)
(***************************************************************************)
\* The step is a heartbeat yielded to subscriber q.
HeartbeatStep(q) == subs'[q].heartbeats = subs[q].heartbeats + 1

C26_Heartbeat ==
    /\ [][\A q \in Queues :
            HeartbeatStep(q) =>
                /\ svc.queues[q] = << >>
                /\ svc'.executions = svc.executions
                /\ svc'.queues = svc.queues
                /\ svc'.subscribers = svc.subscribers
                /\ q \in Range(SubscribersOf(svc', subs'[q].execution_id))
                /\ subs'[q].pc = "waiting"
                /\ subs'[q].received = subs[q].received
                /\ \A o \in Queues \ {q} : subs'[o] = subs[o]]_vars
    /\ [](\A q \in Queues :
            subs[q].heartbeats > 0 =>
                /\ IsPrefix(Stream(q), LogsOf(q))
                /\ Registered(q) => Stream(q) = LogsOf(q)
                /\ \A e \in DOMAIN svc.executions :
                      \A n \in DOMAIN svc.executions[e].logs :
                          svc.executions[e].logs[n].message # <<"heartbeat">>)

\* A registered subscriber that was given a heartbeat has since been sent a real
\* entry, and another subscriber of the same execution has the whole log.
C26_Witness ==
    \E q, o \in Queues :
        /\ q # o
        /\ subs[q].heartbeats = 1 /\ subs[q].pc = "waiting" /\ Registered(q)
        /\ svc.queues[q] # << >> /\ Head(svc.queues[q]) # EndOfStream
        /\ subs[o].execution_id = subs[q].execution_id
        /\ subs[o].received = LogsOf(o) /\ subs[o].received # << >>

(***************************************************************************)
(* C27: when a subscriber's generator is closed, before, during or after   *)
(* completion, its queue leaves the subscriber table and is sent nothing   *)
(* further, while the records (status, logs, completed_nodes) and the      *)
(* registration, queues and deliveries of every other subscriber are       *)
(* unchanged; later log calls for the execution succeed.                   *)
(***************************************************************************)
\* The step closes the generator of subscriber q from outside.
DetachStep(q) ==
    /\ subs[q].pc = "waiting" /\ subs'[q].pc = "done"
    /\ svc'.queues[q] = svc.queues[q]

C27_DetachIsLocal ==
    /\ [][\A q \in Queues :
            DetachStep(q) =>
                /\ \A e \in DOMAIN svc'.subscribers :
                      svc'.subscribers[e] = SelectSeq(svc.subscribers[e], LAMBDA o : o # q)
                /\ svc'.executions = svc.executions
                /\ svc'.queues = svc.queues
                /\ \A o \in Queues \ {q} : subs'[o] = subs[o]]_vars
    /\ [][\A q \in Queues :
            subs[q].pc = "done" =>
                svc'.queues[q] = svc.queues[q] /\ subs'[q] = subs[q]]_vars
    /\ [](\A q \in Queues :
            subs[q].pc = "done" =>
                /\ \A e \in DOMAIN svc.subscribers : q \notin Range(svc.subscribers[e])
                /\ Known(svc, subs[q].execution_id) =>
                      \A call \in LogCalls(svc, subs[q].execution_id) : call.raised = << >>)

\* A subscriber detached with entries still queued; the log has grown since, and
\* another subscriber of the execution, still registered, has received all of it.
C27_Witness ==
    \E q, o \in Queues :
        /\ q # o
        /\ subs[q].pc = "done" /\ svc.queues[q] # << >>
        /\ EndOfStream \notin Range(svc.queues[q])
        /\ Len(LogsOf(q)) > Len(Stream(q))
        /\ subs[o].execution_id = subs[q].execution_id
        /\ Registered(o) /\ subs[o].received = LogsOf(o)


(***************************************************************************)
(* C28  Generation settings reach the capability.                          *)
(***************************************************************************)
\* The step in which the Generation node of call c calls generate.
GenerateStep(c) ==
    /\ Running(c, "llm_engine")
    /\ Len(exec'[c].generated) = Len(exec[c].generated) + 1

\* The context the claim expects generate to be given.
ExpectedContexts(c) ==
    LET kb == Get(exec[c].context, "context", << >>)
    IN  IF Get(exec[c].payload, "web_search", FALSE)
        THEN {kb \o WebSearchHeading \o r : r \in WebSearchResults}
        ELSE {kb}

\* C28: whenever a Generation node calls generate, the call carries the
\* provider, the model and the temperature of the node's settings, max_tokens
\* equal to the node's maxTokens (4096 when the node has none), the prompt equal
\* to the node's systemPrompt when one is set, and as context the retrieved
\* context followed by the web-search text when the web-search flag is set.
C28_Original ==
    [][\A c \in ExecutionIds :
          GenerateStep(c) =>
             LET settings == Settings(exec[c])
                 args == Last(exec'[c].generated).args
             IN  /\ args.provider = settings.provider
                 /\ args.model = settings.model
                 /\ args.temperature = settings.temperature
                 /\ args.max_tokens = settings.maxTokens
                 /\ Truthy(settings.systemPrompt) => args.prompt = settings.systemPrompt
                 /\ args.context \in ExpectedContexts(c)]_vars


(***************************************************************************)
(* C29  Progress bounds.                                                   *)
(***************************************************************************)
\* A progress value is a number between 0 and 100 (progress is kept as the
\* fraction <<completed * 100, total>>; << >> is None).
ProgressInRange(progress) ==
    /\ progress # << >>
    /\ 0 <= progress[1]
    /\ progress[1] <= 100 * progress[2]

CountersInRange(record) ==
    0 <= record.completed_nodes /\ record.completed_nodes <= record.total_nodes

ReturnedCompleted(c) == Returned(c) /\ ResultStatus(c) = "completed"

\* C29: in every state reachable through execute, completed_nodes never
\* decreases and lies between 0 and total_nodes, every log entry's progress
\* lies in 0..100, and when execute returns with status completed,
\* completed_nodes equals total_nodes, the length of the execution order.
C29_Original ==
    /\ [](\A e \in DOMAIN svc.executions :
             /\ CountersInRange(svc.executions[e])
             /\ \A n \in DOMAIN svc.executions[e].logs :
                   ProgressInRange(svc.executions[e].logs[n].progress))
    /\ [](\A c \in ExecutionIds :
             ReturnedCompleted(c) =>
                /\ svc.executions[exec[c].execution_id].completed_nodes =
                      svc.executions[exec[c].execution_id].total_nodes
                /\ svc.executions[exec[c].execution_id].total_nodes =
                      Len(exec[c].info.execution_order))
    /\ [][\A e \in DOMAIN svc.executions :
             svc'.executions[e].completed_nodes >= svc.executions[e].completed_nodes]_vars


(***************************************************************************)
(* C30  Reported capabilities match what ran.                              *)
(***************************************************************************)
\* A node of this component type was dispatched in call c.
WasDispatched(c, component_type) == component_type \in Range(exec[c].dispatched)

\* The text the last generate call of call c made its node write to
\* context.answer.
WrittenAnswer(c) ==
    LET g == Last(exec[c].generated)
    IN  IF g.pc = "returned" THEN g.result ELSE FailedToGenerate(g.result)

\* C30: in a completed result llm_used is true only if a Generation node was
\* dispatched in this run and kb_used only if a Retrieval node was dispatched
\* (a node dropped from the execution order by a cycle does not count), and
\* whenever llm_used is true the answer is the text a Generation node wrote
\* to context.answer in this run.
C30_Original ==
    \A c \in ExecutionIds :
        ReturnedCompleted(c) =>
           /\ exec[c].result["_execution"].llm_used => WasDispatched(c, "llm_engine")
           /\ exec[c].result["_execution"].kb_used => WasDispatched(c, "knowledge_base")
           /\ exec[c].result["_execution"].llm_used =>
                 /\ exec[c].generated # << >>
                 /\ exec[c].result["answer"] = WrittenAnswer(c)

====
